---- MODULE Spec2Model ----
(***************************************************************************)
(* University dating app: the match routes (like / dislike / unmatch) and  *)
(* the chat routes (get-or-create chat, send message, delete message) over *)
(* the User and Chat collections.                                          *)
(*                                                                         *)
(* Every route handler is an async function: it runs atomically between    *)
(* two awaits, and each await (a findById, a findOne, a save) is one step  *)
(* of the request.  Requests therefore interleave at their awaits.         *)
(*                                                                         *)
(* The id arrays of a user document (likedUsers, dislikedUsers, matches)   *)
(* are modelled by the multiplicity of each id: the handlers only push,    *)
(* test membership (includes) and filter by value, none depends on the     *)
(* order of the elements.                                                  *)
(*                                                                         *)
(* document.save() writes what the handler changed on its copy: a push is  *)
(* sent as an atomic $push on the stored array, an assigned array as a     *)
(* $set of the whole array guarded by the document version (__v) the copy  *)
(* was loaded with; every array write increments __v.  A guarded save on a *)
(* copy that was overwritten in between throws (VersionError) and the      *)
(* handler's catch answers 500.  The version is represented by what it is  *)
(* used for: whether the stored document was written since the copy was    *)
(* loaded (curStale, tgtStale).                                            *)
(***************************************************************************)
EXTENDS Integers, Sequences, FiniteSets, TLC

\* The stored users, and a well-formed id that names no stored user.
Users == {"a", "b", "c"}
Ghost == "zz"
Ids == Users \cup {Ghost}

\* Requests in flight at once in the concurrent specifications.
MaxReqs == 2
\* Messages a chat may be sent before further sends are no longer issued.
MaxMsgs == 2
\* Copies of one id an array may hold before further likes are no longer issued.
MaxCopies == 2
\* Milliseconds the clock advances.
MaxClock == 2

Slots == 1..MaxReqs

VARIABLES
  users,   \* the User collection: id -> document
  chats,   \* the Chat collection, in insertion order; a chat's id is its index
  reqs,    \* the requests being served: slot -> handler state
  pre,     \* the collections as they were when the running request began
  now,     \* the server clock (what new Date() and Date.now return)
  events   \* the socket events emitted so far, in order

vars == <<users, chats, reqs, pre, now, events>>

----------------------------------------------------------------------------
(* Arrays of ids *)

EmptyArr == [i \in Ids |-> 0]

\* array.includes(id)
Includes(arr, id) == arr[id] > 0

\* array.push(id)
Push(arr, id) == [arr EXCEPT ![id] = @ + 1]

\* The filter keeps no element at all.
WithoutAny(arr, id) == EmptyArr

\* array.filter(x => x.toString() !== id)
Without(arr, id) == [arr EXCEPT ![id] = 0]

\* The values of the profile fields: the schema's enums and age limits, two
\* universities, and coordinates [longitude, latitude] in thousandths of a
\* degree.  Origin is the coordinates' default [0, 0]; north of Campus, Door
\* is a third of a kilometre away, Near ten kilometres, Far one degree of
\* latitude; Meridian is on the meridian of longitude 0, Quarter on the
\* equator a quarter of a great circle from Origin.
Universities == {"north", "south"}
Genders == {"male", "female", "non-binary"}
Interests == {"male", "female", "both"}
MinAge == 18
MaxAge == 30
DefaultMaxDistance == 50
Origin == <<0, 0>>
Campus == <<10000, 50000>>
Far == <<10000, 51000>>
Near == <<10000, 50090>>
Door == <<10000, 50003>>
Meridian == <<0, 50000>>
Quarter == <<90000, 0>>
Places == {Origin, Campus, Far}

\* A user document as registration leaves it, as far as matching goes: the
\* required fields as given, the others at their defaults, lastActive at the
\* time of registration.
Registered(university, age, gender, interestedIn) ==
  [likedUsers |-> EmptyArr, dislikedUsers |-> EmptyArr, matches |-> EmptyArr,
   isEmailVerified |-> FALSE,
   age |-> age, gender |-> gender, interestedIn |-> interestedIn,
   university |-> university, bio |-> "", photos |-> <<>>,
   location |-> [coordinates |-> Origin],
   preferences |-> [ageRange |-> [min |-> MinAge, max |-> MaxAge],
                    maxDistance |-> DefaultMaxDistance],
   lastActive |-> 0, profileCompleted |-> FALSE]

NewUser == Registered("north", 20, "female", "both")

\* userSchema.methods.isProfileComplete: firstName, lastName, age, gender,
\* interestedIn and university are required of every stored user.
isProfileComplete(user) == user.bio # "" /\ Len(user.photos) > 0

\* A field that was never set (undefined).
None == "none"

\* A chat document as new Chat({participants: [x, y]}) builds it at time t:
\* of lastMessage only the timestamp has a default (Date.now).  lastMessage is
\* <<>> when null and <<object>> otherwise; nextId stands for the ObjectIds
\* given to the chat's messages, each one new.
NewChat(x, y, t) ==
  [participants |-> <<x, y>>, messages |-> <<>>,
   lastMessage |-> <<[content |-> None, sender |-> None, timestamp |-> t]>>,
   isActive |-> TRUE, nextId |-> 1]

----------------------------------------------------------------------------
(* Requests *)

Snapshot == [users |-> users, chats |-> chats]

\* pre records the collections as the first of the requests now in flight
\* found them.
NoneInFlight == \A s \in Slots : reqs[s].pc = "idle"
PreAtBegin == IF NoneInFlight THEN Snapshot ELSE pre

Idle == [op |-> "none", pc |-> "idle", userId |-> Ghost, target |-> Ghost,
         chatId |-> 0, content |-> "", currentUser |-> NewUser,
         targetUser |-> NewUser, curStale |-> FALSE, tgtStale |-> FALSE,
         isMatch |-> FALSE, status |-> 0,
         messageId |-> 0, at |-> 0, lastMessage |-> <<>>, message |-> <<>>,
         unread |-> {}, chatStale |-> FALSE,
         page |-> 0, limit |-> 0, messages |-> <<>>, hasMore |-> FALSE,
         matches |-> <<>>,
         updates |-> [bio |-> <<>>, age |-> <<>>, interestedIn |-> <<>>],
         files |-> 0, photoUrl |-> 0, photos |-> <<>>,
         ageRange |-> <<>>, maxDistance |-> <<>>, distance |-> <<>>]

\* A request of route op by the authenticated user a, whose first query
\* returned cur.
Started(op, a, t, cur, pc) ==
  [Idle EXCEPT !.op = op, !.pc = pc, !.userId = a, !.target = t, !.currentUser = cur]

\* res.status(code).json(...): the handler returns and its documents are dropped.
Respond(q, code) ==
  [q EXCEPT !.pc = "done", !.status = code, !.currentUser = NewUser,
            !.targetUser = NewUser, !.curStale = FALSE, !.tgtStale = FALSE,
            !.unread = {}, !.chatStale = FALSE]

\* A write of chat c's messages increments the version of the stored chat:
\* the copies of c that pending version-guarded saves hold are now stale.
MarkChatStale(rs, c) ==
  [s \in Slots |->
     IF rs[s].op = "markRead" /\ rs[s].pc = "saveChat" /\ rs[s].chatId = c
     THEN [rs[s] EXCEPT !.chatStale = TRUE]
     ELSE rs[s]]

\* A write of user u's arrays increments the version of the stored document:
\* the copies of u that pending version-guarded saves hold are now stale.
MarkStale(rs, u) ==
  [s \in Slots |->
     IF rs[s].op = "unmatch" /\ rs[s].pc \in {"findTarget", "saveCurrent", "saveTarget"}
     THEN [rs[s] EXCEPT
             !.curStale = @ \/ (rs[s].userId = u),
             !.tgtStale = @ \/ (rs[s].target = u /\ rs[s].pc \in {"saveCurrent", "saveTarget"})]
     ELSE rs[s]]

----------------------------------------------------------------------------
(* POST /like/:userId *)

\* const currentUser = await User.findById(req.userId)
LikeFindCurrent(r, a, t) ==
  /\ reqs[r].pc = "idle"
  /\ reqs' = [reqs EXCEPT ![r] = Started("like", a, t, users[a], "findTarget")]
  /\ pre' = PreAtBegin
  /\ UNCHANGED <<users, chats, now, events>>

\* The guard looks the target up in matches instead of likedUsers.
AlreadyLikedByMatch(currentUser, userId) == Includes(currentUser.matches, userId)

\* if (currentUser.likedUsers.includes(userId)) return 400 'User already liked'
AlreadyLiked(currentUser, userId) == Includes(currentUser.likedUsers, userId)

\* if (targetUser.likedUsers.includes(req.userId)) isMatch = true
MutualLike(targetUser, userId) == Includes(targetUser.likedUsers, userId)

\* const targetUser = await User.findById(userId), then the handler up to its
\* first save: the 404 and already-liked answers, the pushes on the copies.
LikeFindTarget(r) ==
  LET q == reqs[r] IN
  /\ q.op = "like" /\ q.pc = "findTarget"
  /\ reqs' = [reqs EXCEPT ![r] =
       IF q.target \notin Users THEN Respond(q, 404)
       ELSE IF AlreadyLiked(q.currentUser, q.target) THEN Respond(q, 400)
       ELSE IF MutualLike(users[q.target], q.userId)
            THEN [q EXCEPT !.targetUser = users[q.target], !.isMatch = TRUE,
                           !.pc = "saveTarget"]
            ELSE [q EXCEPT !.targetUser = users[q.target], !.pc = "saveCurrent"]]
  /\ UNCHANGED <<users, chats, pre, now, events>>

\* The handler omits the push on the target's copy.
LikedBackForgotten(stored, userId) == stored

\* targetUser.matches.push(req.userId), as targetUser.save() applies it to the
\* stored document
LikedBack(stored, userId) == [stored EXCEPT !.matches = Push(@, userId)]

\* currentUser.likedUsers.push(userId) and, on a match,
\* currentUser.matches.push(userId), as currentUser.save() applies them
Liked(stored, userId, isMatch) ==
  [stored EXCEPT !.likedUsers = Push(@, userId),
                 !.matches = IF isMatch THEN Push(@, userId) ELSE @]

\* await targetUser.save()
LikeSaveTarget(r) ==
  LET q == reqs[r] IN
  /\ q.op = "like" /\ q.pc = "saveTarget"
  /\ users' = [users EXCEPT ![q.target] = LikedBack(@, q.userId)]
  /\ reqs' = MarkStale([reqs EXCEPT ![r].pc = "saveCurrent"], q.target)
  /\ UNCHANGED <<chats, pre, now, events>>

\* await currentUser.save(); res.json({isMatch, ...})
LikeSaveCurrent(r) ==
  LET q == reqs[r] IN
  /\ q.op = "like" /\ q.pc = "saveCurrent"
  /\ users' = [users EXCEPT ![q.userId] = Liked(@, q.target, q.isMatch)]
  /\ reqs' = MarkStale([reqs EXCEPT ![r] = Respond(q, 200)], q.userId)
  /\ UNCHANGED <<chats, pre, now, events>>

----------------------------------------------------------------------------
(* POST /dislike/:userId *)

\* if (currentUser.dislikedUsers.includes(userId)) return 400
AlreadyDisliked(currentUser, userId) == Includes(currentUser.dislikedUsers, userId)

\* The dislike also withdraws an earlier like of the target.
DislikedAndUnliked(stored, userId) ==
  [stored EXCEPT !.dislikedUsers = Push(@, userId), !.likedUsers = Without(@, userId)]

\* currentUser.dislikedUsers.push(userId), as currentUser.save() applies it
Disliked(stored, userId) == [stored EXCEPT !.dislikedUsers = Push(@, userId)]

\* const currentUser = await User.findById(req.userId), the already-disliked
\* answer, the push on the copy
DislikeFindCurrent(r, a, t) ==
  /\ reqs[r].pc = "idle"
  /\ reqs' = [reqs EXCEPT ![r] =
       IF AlreadyDisliked(users[a], t)
       THEN Respond(Started("dislike", a, t, users[a], "saveCurrent"), 400)
       ELSE Started("dislike", a, t, users[a], "saveCurrent")]
  /\ pre' = PreAtBegin
  /\ UNCHANGED <<users, chats, now, events>>

\* await currentUser.save(); res.json(...)
DislikeSaveCurrent(r) ==
  LET q == reqs[r] IN
  /\ q.op = "dislike" /\ q.pc = "saveCurrent"
  /\ users' = [users EXCEPT ![q.userId] = Disliked(@, q.target)]
  /\ reqs' = MarkStale([reqs EXCEPT ![r] = Respond(q, 200)], q.userId)
  /\ UNCHANGED <<chats, pre, now, events>>

----------------------------------------------------------------------------
(* DELETE /unmatch/:userId *)

\* const currentUser = await User.findById(req.userId)
UnmatchFindCurrent(r, a, t) ==
  /\ reqs[r].pc = "idle"
  /\ reqs' = [reqs EXCEPT ![r] = Started("unmatch", a, t, users[a], "findTarget")]
  /\ pre' = PreAtBegin
  /\ UNCHANGED <<users, chats, now, events>>

\* const targetUser = await User.findById(userId), the 404 answer, the four
\* filtered arrays assigned on the copies
UnmatchFindTarget(r) ==
  LET q == reqs[r] IN
  /\ q.op = "unmatch" /\ q.pc = "findTarget"
  /\ reqs' = [reqs EXCEPT ![r] =
       IF q.target \notin Users THEN Respond(q, 404)
       ELSE [q EXCEPT !.targetUser = users[q.target], !.pc = "saveCurrent"]]
  /\ UNCHANGED <<users, chats, pre, now, events>>

\* The unmatch leaves the likes in place.
UnmatchedKeepsLikes(doc, other) == [doc EXCEPT !.matches = Without(@, other)]

\* doc.matches = doc.matches.filter(id => id.toString() !== other);
\* doc.likedUsers = doc.likedUsers.filter(id => id.toString() !== other)
Unmatched(doc, other) ==
  [doc EXCEPT !.matches = Without(@, other), !.likedUsers = Without(@, other)]

\* doc.save() of a copy whose matches and likedUsers were assigned.  Nothing is
\* sent when the assigned arrays equal the loaded ones; otherwise the changed
\* arrays are $set under the loaded version: "ok" when written (or nothing to
\* write), "version" when the stored document was written in between.
SetSaveOutcome(doc, other, stale) ==
  IF Unmatched(doc, other) = doc THEN "ok"
  ELSE IF stale THEN "version" ELSE "ok"

\* The stored document after that save went through.
SetSaveWrite(stored, doc, other) ==
  LET new == Unmatched(doc, other) IN
  [stored EXCEPT
     !.matches = IF new.matches # doc.matches THEN new.matches ELSE @,
     !.likedUsers = IF new.likedUsers # doc.likedUsers THEN new.likedUsers ELSE @]

\* await currentUser.save()
UnmatchSaveCurrent(r) ==
  LET q == reqs[r] IN
  /\ q.op = "unmatch" /\ q.pc = "saveCurrent"
  /\ IF SetSaveOutcome(q.currentUser, q.target, q.curStale) = "version"
     THEN /\ reqs' = [reqs EXCEPT ![r] = Respond(q, 500)]
          /\ UNCHANGED users
     ELSE /\ users' = [users EXCEPT ![q.userId] =
                         SetSaveWrite(@, q.currentUser, q.target)]
          /\ reqs' = IF users' = users
                     THEN [reqs EXCEPT ![r].pc = "saveTarget"]
                     ELSE MarkStale([reqs EXCEPT ![r].pc = "saveTarget"], q.userId)
  /\ UNCHANGED <<chats, pre, now, events>>

\* await targetUser.save(); res.json(...)
UnmatchSaveTarget(r) ==
  LET q == reqs[r] IN
  /\ q.op = "unmatch" /\ q.pc = "saveTarget"
  /\ IF SetSaveOutcome(q.targetUser, q.userId, q.tgtStale) = "version"
     THEN /\ reqs' = [reqs EXCEPT ![r] = Respond(q, 500)]
          /\ UNCHANGED users
     ELSE /\ users' = [users EXCEPT ![q.target] =
                         SetSaveWrite(@, q.targetUser, q.userId)]
          /\ reqs' = IF users' = users
                     THEN [reqs EXCEPT ![r] = Respond(q, 200)]
                     ELSE MarkStale([reqs EXCEPT ![r] = Respond(q, 200)], q.target)
  /\ UNCHANGED <<chats, pre, now, events>>

----------------------------------------------------------------------------
(* GET /chat/with/:userId *)

\* const currentUser = await User.findById(req.userId)
ChatFindCurrent(r, a, t) ==
  /\ reqs[r].pc = "idle"
  /\ reqs' = [reqs EXCEPT ![r] = Started("chatWith", a, t, users[a], "findTarget")]
  /\ pre' = PreAtBegin
  /\ UNCHANGED <<users, chats, now, events>>

\* The check also lets through a user who only liked the other.
IsMatchedOrLiked(currentUser, userId) ==
  Includes(currentUser.matches, userId) \/ Includes(currentUser.likedUsers, userId)

\* if (!currentUser.matches.includes(userId)) return 403
IsMatched(currentUser, userId) == Includes(currentUser.matches, userId)

\* const otherUser = await User.findById(userId), the 404 and 403 answers
ChatFindOther(r) ==
  LET q == reqs[r] IN
  /\ q.op = "chatWith" /\ q.pc = "findTarget"
  /\ reqs' = [reqs EXCEPT ![r] =
       IF q.target \notin Users THEN Respond(q, 404)
       ELSE IF ~IsMatched(q.currentUser, q.target) THEN Respond(q, 403)
       ELSE [q EXCEPT !.pc = "findChat"]]
  /\ UNCHANGED <<users, chats, pre, now, events>>

Participants(chat) == {chat.participants[i] : i \in 1..Len(chat.participants)}

\* Every caller is taken for a participant.
IsParticipantAlways(chat, userId) == TRUE

\* chat.participants.includes(req.userId)
IsParticipant(chat, userId) == userId \in Participants(chat)

\* Chat.findOne({participants: {$all: [x, y]}}): the ids of the chats that
\* match (findOne returns the first stored)
ChatsOf(x, y) == {i \in 1..Len(chats) : {x, y} \subseteq Participants(chats[i])}

FindOne(x, y) ==
  IF ChatsOf(x, y) = {} THEN 0
  ELSE CHOOSE i \in ChatsOf(x, y) : \A j \in ChatsOf(x, y) : i <= j

\* let chat = await Chat.findOne(...); an existing chat is answered
ChatFindOne(r) ==
  LET q == reqs[r] IN
  /\ q.op = "chatWith" /\ q.pc = "findChat"
  /\ reqs' = [reqs EXCEPT ![r] =
       IF FindOne(q.userId, q.target) # 0
       THEN [Respond(q, 200) EXCEPT !.chatId = FindOne(q.userId, q.target)]
       ELSE [q EXCEPT !.pc = "saveChat"]]
  /\ UNCHANGED <<users, chats, pre, now, events>>

\* chat = new Chat({participants: [req.userId, userId]}); await chat.save()
\* (the pre-save hook passes: two participants); res.json({chat})
ChatSave(r) ==
  LET q == reqs[r] IN
  /\ q.op = "chatWith" /\ q.pc = "saveChat"
  /\ chats' = Append(chats, NewChat(q.userId, q.target, now))
  /\ reqs' = [reqs EXCEPT ![r] = [Respond(q, 200) EXCEPT !.chatId = Len(chats) + 1]]
  /\ UNCHANGED <<users, pre, now, events>>

----------------------------------------------------------------------------
(* POST /chat/:chatId/messages *)

\* Message bodies a client sends: empty, blank, two short texts, "long" for a
\* text of 1001 letters and "astral" for a text of 1000 symbols outside the
\* basic plane (two UTF-16 units each); body('content').trim()
Contents == {"", " ", "hi", " yo ", "long", "astral"}
Trim(content) == CASE content = " " -> "" [] content = " yo " -> "yo" [] OTHER -> content

\* The length isLength measures: UTF-16 units less one per surrogate pair
Length(content) ==
  CASE content = "" -> 0 [] content = " " -> 1 [] content = "hi" -> 2
    [] content = "yo" -> 2 [] content = " yo " -> 4
    [] content = "long" -> 1001 [] content = "astral" -> 1000

\* The length the schema's maxlength measures: String.length, in UTF-16 units
Units(content) ==
  CASE content = "" -> 0 [] content = " " -> 1 [] content = "hi" -> 2
    [] content = "yo" -> 2 [] content = " yo " -> 4
    [] content = "long" -> 1001 [] content = "astral" -> 2000

MaxContent == 1000
MaxLength == 1000

\* The validator lets every body through.
ValidContentAny(content) == TRUE

\* body('content').trim().isLength({min: 1, max: 1000})
ValidContent(content) == Length(Trim(content)) >= 1 /\ Length(Trim(content)) <= MaxContent

\* messageSchema.content: required, maxlength 1000, validated by chat.save()
SchemaValid(content) == Units(content) >= 1 /\ Units(content) <= MaxLength

\* The message is built with an empty readBy.
NewMessageUnread(id, sender, content, createdAt) ==
  [id |-> id, sender |-> sender, content |-> content, readBy |-> <<>>,
   createdAt |-> createdAt]

\* The message the handler builds: readBy holds the sender alone.  The
\* message gets its _id when built and its createdAt (timestamps: true) when
\* the chat is saved.
NewMessage(id, sender, content, createdAt) ==
  [id |-> id, sender |-> sender, content |-> content, readBy |-> <<sender>>,
   createdAt |-> createdAt]

\* The validators, const chat = await Chat.findById(chatId), the 404 and 403
\* answers, the message pushed and lastMessage assigned on the copy.
\* Chat id 0 names no stored chat.
SendFindChat(r, a, c, content) ==
  /\ reqs[r].pc = "idle"
  /\ c \in 0..Len(chats)
  /\ c # 0 => chats[c].nextId <= MaxMsgs
  /\ LET q == [Started("send", a, Ghost, NewUser, "saveChat")
                 EXCEPT !.chatId = c, !.content = Trim(content), !.at = now] IN
     reqs' = [reqs EXCEPT ![r] =
       IF ~ValidContent(content) THEN Respond(q, 400)
       ELSE IF c = 0 THEN Respond(q, 404)
       ELSE IF ~IsParticipant(chats[c], a) THEN Respond(q, 403)
       ELSE q]
  /\ pre' = PreAtBegin
  /\ UNCHANGED <<users, chats, now, events>>

\* lastMessage is written only for the first message of a chat.
SentKeepsLast(stored, sender, content, at, savedAt) ==
  [stored EXCEPT
     !.messages = Append(@, NewMessage(stored.nextId, sender, content, savedAt)),
     !.lastMessage = IF stored.messages = <<>>
                     THEN <<[content |-> content, sender |-> sender, timestamp |-> at]>>
                     ELSE @,
     !.nextId = @ + 1]

\* chat.messages.push(message); chat.lastMessage = {content, sender,
\* timestamp: new Date()} with the handler's time at, as chat.save() applies
\* them to the stored chat at time savedAt: an atomic $push and a $set
Sent(stored, sender, content, at, savedAt) ==
  [stored EXCEPT
     !.messages = Append(@, NewMessage(stored.nextId, sender, content, savedAt)),
     !.lastMessage = <<[content |-> content, sender |-> sender, timestamp |-> at]>>,
     !.nextId = @ + 1]

\* The names server.js sets on the app (app.set(name, value)): none.
AppSettings == {}

\* req.app.get(name)
AppGet(name) == IF name \in AppSettings THEN name ELSE None

\* io.to(chatId).emit('receive-message', {chatId, message})
ReceiveMessage(chatId, message) ==
  [room |-> chatId, event |-> "receive-message", chatId |-> chatId, message |-> message]

\* await chat.save(): the schema validation of the new message, whose failure
\* the catch answers with 500; createdMessage = the last message of the
\* handler's copy; the socket emit if the app has an io;
\* res.status(201).json({message})
SendSave(r) ==
  LET q == reqs[r]
      createdMessage == NewMessage(chats[q.chatId].nextId, q.userId, q.content, now)
  IN
  /\ q.op = "send" /\ q.pc = "saveChat"
  /\ IF SchemaValid(q.content)
     THEN /\ chats' = [chats EXCEPT ![q.chatId] = Sent(@, q.userId, q.content, q.at, now)]
          /\ events' = IF AppGet("io") # None
                       THEN Append(events, ReceiveMessage(q.chatId, createdMessage))
                       ELSE events
          /\ reqs' = [MarkChatStale(reqs, q.chatId) EXCEPT ![r] =
                        [Respond(q, 201) EXCEPT !.message = <<createdMessage>>]]
     ELSE /\ reqs' = [reqs EXCEPT ![r] = Respond(q, 500)]
          /\ UNCHANGED <<chats, events>>
  /\ UNCHANGED <<users, pre, now>>

----------------------------------------------------------------------------
(* DELETE /chat/:chatId/messages/:messageId *)

\* chat.messages.id(messageId): the positions of the messages with that _id
MessageById(messages, messageId) ==
  {i \in 1..Len(messages) : messages[i].id = messageId}

\* chat.messages.pull(messageId)
Pulled(messages, messageId) ==
  SelectSeq(messages, LAMBDA m : m.id # messageId)

\* The handler clears lastMessage whatever is left.
LastMessageCleared(messages) == <<>>

\* The lastMessage the handler assigns after the pull: content, sender and
\* createdAt of the last message left, or null.
LastMessageOf(messages) ==
  IF Len(messages) > 0
  THEN <<[content |-> messages[Len(messages)].content,
          sender |-> messages[Len(messages)].sender,
          timestamp |-> messages[Len(messages)].createdAt]>>
  ELSE <<>>

\* Any requester passes for the sender.
NotSenderNever(messages, messageId, userId) == FALSE

\* if (message.sender.toString() !== req.userId) return 403
NotSender(messages, messageId, userId) ==
  \E i \in MessageById(messages, messageId) : messages[i].sender # userId

\* const chat = await Chat.findById(chatId), the 404 and 403 answers, the
\* message looked up, pulled from the copy, lastMessage assigned on the copy.
\* Message id 0 names no stored message.
DeleteFindChat(r, a, c, m) ==
  /\ reqs[r].pc = "idle"
  /\ c \in 0..Len(chats)
  /\ LET q == [Started("delete", a, Ghost, NewUser, "saveChat")
                 EXCEPT !.chatId = c, !.messageId = m] IN
     reqs' = [reqs EXCEPT ![r] =
       IF c = 0 THEN Respond(q, 404)
       ELSE IF ~IsParticipant(chats[c], a) THEN Respond(q, 403)
       ELSE IF MessageById(chats[c].messages, m) = {} THEN Respond(q, 404)
       ELSE IF NotSender(chats[c].messages, m, a) THEN Respond(q, 403)
       ELSE [q EXCEPT !.lastMessage = LastMessageOf(Pulled(chats[c].messages, m))]]
  /\ pre' = PreAtBegin
  /\ UNCHANGED <<users, chats, now, events>>

\* The pull and the assigned lastMessage, as chat.save() applies them to the
\* stored chat: an atomic $pull by _id and a $set
Deleted(stored, messageId, lastMessage) ==
  [stored EXCEPT !.messages = Pulled(@, messageId), !.lastMessage = lastMessage]

\* await chat.save(); res.json(...)
DeleteSave(r) ==
  LET q == reqs[r] IN
  /\ q.op = "delete" /\ q.pc = "saveChat"
  /\ chats' = [chats EXCEPT ![q.chatId] = Deleted(@, q.messageId, q.lastMessage)]
  /\ reqs' = [MarkChatStale(reqs, q.chatId) EXCEPT ![r] = Respond(q, 200)]
  /\ UNCHANGED <<users, pre, now, events>>

----------------------------------------------------------------------------
(* PUT /:chatId/read *)

\* No entry of readBy is ever found.
HasReadNever(message, userId) == FALSE

\* message.readBy.some(read => read.user.toString() === req.userId)
HasRead(message, userId) ==
  \E j \in 1..Len(message.readBy) : message.readBy[j] = userId

\* The messages of the handler's copy that get a new readBy entry.
Unread(messages, userId) ==
  {i \in 1..Len(messages) : ~HasRead(messages[i], userId)}

\* const chat = await Chat.findById(chatId), the 404 and 403 answers, and the
\* forEach that pushes {user, readAt} on the copy's unread messages.
MarkReadFindChat(r, a, c) ==
  /\ reqs[r].pc = "idle"
  /\ c \in 0..Len(chats)
  /\ LET q == [Started("markRead", a, Ghost, NewUser, "saveChat")
                 EXCEPT !.chatId = c] IN
     reqs' = [reqs EXCEPT ![r] =
       IF c = 0 THEN Respond(q, 404)
       ELSE IF ~IsParticipant(chats[c], a) THEN Respond(q, 403)
       ELSE [q EXCEPT !.unread = Unread(chats[c].messages, a)]]
  /\ pre' = PreAtBegin
  /\ UNCHANGED <<users, chats, now, events>>

\* The $push of userId on messages.i.readBy for every i of unread, addressed
\* by position in the stored array.
MarkedRead(stored, unread, userId) ==
  [stored EXCEPT !.messages =
     [i \in 1..Len(@) |->
        IF i \in unread THEN [@[i] EXCEPT !.readBy = Append(@, userId)] ELSE @[i]]]

\* await chat.save(); res.json(...).  Nothing is sent when nothing was
\* pushed; a push on messages.i.readBy is guarded by the version the copy was
\* read at, and the catch answers the VersionError with 500.
MarkReadSave(r) ==
  LET q == reqs[r] IN
  /\ q.op = "markRead" /\ q.pc = "saveChat"
  /\ IF q.unread = {}
     THEN /\ reqs' = [reqs EXCEPT ![r] = Respond(q, 200)]
          /\ UNCHANGED chats
     ELSE IF q.chatStale
     THEN /\ reqs' = [reqs EXCEPT ![r] = Respond(q, 500)]
          /\ UNCHANGED chats
     ELSE /\ chats' = [chats EXCEPT ![q.chatId] = MarkedRead(@, q.unread, q.userId)]
          /\ reqs' = [MarkChatStale(reqs, q.chatId) EXCEPT ![r] = Respond(q, 200)]
  /\ UNCHANGED <<users, pre, now, events>>

----------------------------------------------------------------------------
(* GET /:chatId/messages *)

\* The array is left in stored order.
Unsorted(messages) == messages

\* messages.sort((a, b) => b.createdAt - a.createdAt): newest first; the sort
\* is stable, so messages of equal createdAt keep their stored order.
RECURSIVE SortNewestFirst(_)
SortNewestFirst(messages) ==
  IF messages = <<>> THEN <<>>
  ELSE LET n == Len(messages)
           m == messages[n]
           sorted == SortNewestFirst(SubSeq(messages, 1, n - 1))
           k == Cardinality({i \in 1..Len(sorted) : sorted[i].createdAt >= m.createdAt})
       IN SubSeq(sorted, 1, k) \o <<m>> \o SubSeq(sorted, k + 1, Len(sorted))

\* array.slice(start, end) for 0 <= start <= end
Slice(array, start, end) ==
  SubSeq(array, start + 1, IF end < Len(array) THEN end ELSE Len(array))

\* array.reverse()
Reverse(array) == [i \in 1..Len(array) |-> array[Len(array) + 1 - i]]

\* const skip = (page - 1) * limit
Skip(page, limit) == (page - 1) * limit

\* chat.messages.sort(...).slice(skip, skip + parseInt(limit)).reverse()
PageOf(messages, page, limit) ==
  Reverse(Slice(SortNewestFirst(messages), Skip(page, limit), Skip(page, limit) + limit))

\* hasMore: chat.messages.length > skip + parseInt(limit)
HasMore(messages, page, limit) == Len(messages) > Skip(page, limit) + limit

\* The whole handler: const chat = await Chat.findById(chatId), the 404 and
\* 403 answers, the page and res.json({messages, hasMore}).  The populate of
\* the senders' names reads nothing the model holds.
ListMessages(r, a, c, page, limit) ==
  /\ reqs[r].pc = "idle"
  /\ c \in 0..Len(chats)
  /\ LET q == [Started("list", a, Ghost, NewUser, "done")
                 EXCEPT !.chatId = c, !.page = page, !.limit = limit] IN
     reqs' = [reqs EXCEPT ![r] =
       IF c = 0 THEN Respond(q, 404)
       ELSE IF ~IsParticipant(chats[c], a) THEN Respond(q, 403)
       ELSE [Respond(q, 200) EXCEPT
               !.messages = PageOf(chats[c].messages, page, limit),
               !.hasMore = HasMore(chats[c].messages, page, limit)]]
  /\ pre' = PreAtBegin
  /\ UNCHANGED <<users, chats, now, events>>

----------------------------------------------------------------------------
(* PUT /update *)

\* The bios sent, and their lengths: "essay" is of 501 characters.  A field
\* of the body is <<>> when not sent, <<value>> when sent.
Bios == {"", "bio", "essay"}
BioLength(bio) == CASE bio = "" -> 0 [] bio = "bio" -> 3 [] bio = "essay" -> 501
MaxBio == 500

\* body('age').optional().isInt({min: 18, max: 30}),
\* body('bio').optional().isLength({max: 500}),
\* body('interestedIn').optional().isIn(['male', 'female', 'both']):
\* optional() passes a field that was not sent
ValidUpdates(updates) ==
  /\ updates.age # <<>> => (updates.age[1] >= MinAge /\ updates.age[1] <= MaxAge)
  /\ updates.bio # <<>> => BioLength(updates.bio[1]) <= MaxBio
  /\ updates.interestedIn # <<>> => updates.interestedIn[1] \in Interests

\* The flag is left as it was.
CompletionKept(user) == user

\* user.profileCompleted = user.isProfileComplete()
Completion(user) == [user EXCEPT !.profileCompleted = isProfileComplete(user)]

\* allowedUpdates.forEach(field => {if (updates[field] !== undefined)
\* user[field] = updates[field]}); user.profileCompleted = ...
Updated(user, updates) ==
  Completion([user EXCEPT
    !.age = IF updates.age # <<>> THEN updates.age[1] ELSE @,
    !.bio = IF updates.bio # <<>> THEN updates.bio[1] ELSE @,
    !.interestedIn = IF updates.interestedIn # <<>> THEN updates.interestedIn[1] ELSE @])

\* The validators, const user = await User.findById(req.userId), the 404
\* answer, and the fields assigned on the copy.
UpdateFindUser(r, a, updates) ==
  /\ reqs[r].pc = "idle"
  /\ LET q == [Started("update", a, Ghost, NewUser, "saveUser") EXCEPT !.updates = updates] IN
     reqs' = [reqs EXCEPT ![r] =
       IF ~ValidUpdates(updates) THEN Respond(q, 400)
       ELSE IF a \notin DOMAIN users THEN Respond(q, 404)
       ELSE [q EXCEPT !.currentUser = Updated(users[a], updates)]]
  /\ pre' = PreAtBegin
  /\ UNCHANGED <<users, chats, now, events>>

----------------------------------------------------------------------------
(* POST /upload-photos, PUT /set-main-photo, DELETE /delete-photo *)

\* upload.array('photos', 6), the 6 photos a user keeps, and the urls a file
\* can be stored under, numbered: a new file gets a url after those of the
\* photos the user has.
MaxCount == 6
MaxPhotos == 6
MaxUrl == 8
Urls == 1..MaxUrl

UrlsOf(photos) == {photos[i].url : i \in 1..Len(photos)}

LastUrl(photos) ==
  IF photos = <<>> THEN 0
  ELSE CHOOSE n \in UrlsOf(photos) : \A m \in UrlsOf(photos) : m <= n

\* The urls of k new files.
NewUrls(photos, k) == [i \in 1..k |-> LastUrl(photos) + i]

\* req.files.map((file, index) => ({url, isMain: user.photos.length === 0 &&
\* index === 0}))
NewPhotos(photos, k) ==
  [i \in 1..k |-> [url |-> NewUrls(photos, k)[i], isMain |-> Len(photos) = 0 /\ i = 1]]

\* array.slice(-n)
SliceLast(array, n) ==
  IF Len(array) > n THEN SubSeq(array, Len(array) - n + 1, Len(array)) ELSE array

\* user.photos.push(...newPhotos); if (user.photos.length > 6) user.photos =
\* user.photos.slice(-6); user.profileCompleted = ...
Uploaded(user, k) ==
  Completion([user EXCEPT
    !.photos = IF Len(@ \o NewPhotos(@, k)) > MaxPhotos
               THEN SliceLast(@ \o NewPhotos(@, k), MaxPhotos)
               ELSE @ \o NewPhotos(@, k)])

\* The files received (more than MaxCount are refused by the upload
\* middleware, whose error the server answers with 500), the 400 answer to
\* no file, const user = await User.findById(req.userId), the 404 answer,
\* and the photos added on the copy.
UploadFindUser(r, a, k) ==
  /\ reqs[r].pc = "idle"
  /\ a \in DOMAIN users => LastUrl(users[a].photos) + k <= MaxUrl
  /\ LET q == [Started("upload", a, Ghost, NewUser, "saveUser") EXCEPT !.files = k] IN
     reqs' = [reqs EXCEPT ![r] =
       IF k > MaxCount THEN Respond(q, 500)
       ELSE IF k = 0 THEN Respond(q, 400)
       ELSE IF a \notin DOMAIN users THEN Respond(q, 404)
       ELSE [q EXCEPT !.currentUser = Uploaded(users[a], k)]]
  /\ pre' = PreAtBegin
  /\ UNCHANGED <<users, chats, now, events>>

\* user.photos.find(photo => photo.url === photoUrl) / findIndex: the
\* positions of the photos of that url
PhotoIndex(photos, photoUrl) == {i \in 1..Len(photos) : photos[i].url = photoUrl}

\* user.photos.forEach(photo => {photo.isMain = false});
\* selectedPhoto.isMain = true
MainSet(user, photoUrl) ==
  [user EXCEPT !.photos =
     [i \in 1..Len(@) |->
        [@[i] EXCEPT !.isMain =
           /\ i \in PhotoIndex(user.photos, photoUrl)
           /\ \A j \in PhotoIndex(user.photos, photoUrl) : i <= j]]]

\* const user = await User.findById(req.userId), the 404 answers (no user,
\* no photo of that url), and the main photo set on the copy.  The result of
\* the validator of photoUrl is not looked at.
SetMainFindUser(r, a, photoUrl) ==
  /\ reqs[r].pc = "idle"
  /\ LET q == [Started("setMain", a, Ghost, NewUser, "saveUser") EXCEPT !.photoUrl = photoUrl] IN
     reqs' = [reqs EXCEPT ![r] =
       IF a \notin DOMAIN users THEN Respond(q, 404)
       ELSE IF PhotoIndex(users[a].photos, photoUrl) = {} THEN Respond(q, 404)
       ELSE [q EXCEPT !.currentUser = MainSet(users[a], photoUrl)]]
  /\ pre' = PreAtBegin
  /\ UNCHANGED <<users, chats, now, events>>

\* array.splice(index, 1)
Splice(array, index) == SubSeq(array, 1, index - 1) \o SubSeq(array, index + 1, Len(array))

\* const wasMain = user.photos[photoIndex].isMain; user.photos.splice(
\* photoIndex, 1); if (wasMain && user.photos.length > 0)
\* user.photos[0].isMain = true; user.profileCompleted = ...
PhotoDeleted(user, photoIndex) ==
  LET wasMain == user.photos[photoIndex].isMain
      rest == Splice(user.photos, photoIndex)
  IN Completion([user EXCEPT !.photos =
       IF wasMain /\ Len(rest) > 0 THEN [rest EXCEPT ![1].isMain = TRUE] ELSE rest])

\* const user = await User.findById(req.userId), the 404 answers, and the
\* photo of the first index found removed on the copy.
DeletePhotoFindUser(r, a, photoUrl) ==
  /\ reqs[r].pc = "idle"
  /\ LET q == [Started("deletePhoto", a, Ghost, NewUser, "saveUser")
                 EXCEPT !.photoUrl = photoUrl] IN
     reqs' = [reqs EXCEPT ![r] =
       IF a \notin DOMAIN users THEN Respond(q, 404)
       ELSE IF PhotoIndex(users[a].photos, photoUrl) = {} THEN Respond(q, 404)
       ELSE [q EXCEPT !.currentUser =
               PhotoDeleted(users[a],
                            CHOOSE i \in PhotoIndex(users[a].photos, photoUrl) :
                              \A j \in PhotoIndex(users[a].photos, photoUrl) : i <= j)]]
  /\ pre' = PreAtBegin
  /\ UNCHANGED <<users, chats, now, events>>

\* await user.save() of the four routes: the paths the handler assigned are
\* written from its copy, which, requests being served one at a time, was
\* read from the user as stored now; res.json({..., photos: user.photos})
SaveUser(r) ==
  LET q == reqs[r]
      copy == q.currentUser
  IN
  /\ q.op \in {"update", "upload", "setMain", "deletePhoto"} /\ q.pc = "saveUser"
  /\ users' = [users EXCEPT ![q.userId] =
       IF q.op = "update"
       THEN [@ EXCEPT
               !.age = IF q.updates.age # <<>> THEN copy.age ELSE @,
               !.bio = IF q.updates.bio # <<>> THEN copy.bio ELSE @,
               !.interestedIn = IF q.updates.interestedIn # <<>> THEN copy.interestedIn ELSE @,
               !.profileCompleted = copy.profileCompleted]
       ELSE IF q.op = "setMain"
       THEN [@ EXCEPT !.photos = copy.photos]
       ELSE [@ EXCEPT !.photos = copy.photos, !.profileCompleted = copy.profileCompleted]]
  /\ reqs' = [reqs EXCEPT ![r] = [Respond(q, 200) EXCEPT !.photos = copy.photos]]
  /\ UNCHANGED <<chats, pre, now, events>>

----------------------------------------------------------------------------
(* PUT /update-preferences *)

\* A value of the JSON body: a number, or a string, written as the sequence
\* of its characters.
Num(n) == [type |-> "number", value |-> n, chars |-> <<>>]
Str(chars) == [type |-> "string", value |-> 0, chars |-> chars]

Signs == {"+", "-"}
Digits == {"0", "1", "2", "3", "4", "5", "6", "7", "8", "9"}

\* The code unit of a character.
Code(ch) ==
  CASE ch = "+" -> 43 [] ch = "-" -> 45
    [] ch = "0" -> 48 [] ch = "1" -> 49 [] ch = "2" -> 50 [] ch = "3" -> 51
    [] ch = "4" -> 52 [] ch = "5" -> 53 [] ch = "6" -> 54 [] ch = "7" -> 55
    [] ch = "8" -> 56 [] ch = "9" -> 57

Unsigned(chars) ==
  IF chars # <<>> /\ chars[1] \in Signs THEN Tail(chars) ELSE chars

RECURSIVE DigitsValue(_)
DigitsValue(chars) ==
  IF chars = <<>> THEN 0
  ELSE DigitsValue(SubSeq(chars, 1, Len(chars) - 1)) * 10
         + (Code(chars[Len(chars)]) - Code("0"))

\* Number(string) of a signed decimal numeral.
Number(chars) ==
  IF chars # <<>> /\ chars[1] = "-" THEN 0 - DigitsValue(Unsigned(chars))
  ELSE DigitsValue(Unsigned(chars))

\* The number a value stands for, in a comparison with a number and when
\* the schema casts it to its Number path.
ToNumber(v) == IF v.type = "number" THEN v.value ELSE Number(v.chars)

\* isInt({min, max}) of the validators: the value as a string is an optional
\* sign followed by digits, and its number is within the range.
isInt(v, min, max) ==
  /\ v.type = "string" =>
       /\ Unsigned(v.chars) # <<>>
       /\ \A i \in 1..Len(Unsigned(v.chars)) : Unsigned(v.chars)[i] \in Digits
  /\ ToNumber(v) >= min
  /\ ToNumber(v) <= max

\* s > t of two strings: by code units, from the left.
RECURSIVE StringGreater(_, _)
StringGreater(s, t) ==
  IF s = <<>> THEN FALSE
  ELSE IF t = <<>> THEN TRUE
  ELSE IF Code(s[1]) # Code(t[1]) THEN Code(s[1]) > Code(t[1])
  ELSE StringGreater(Tail(s), Tail(t))

\* x > y of two body fields: false when one was not sent (undefined), by
\* code units between two strings, and numerical otherwise.
Greater(x, y) ==
  IF x = <<>> \/ y = <<>> THEN FALSE
  ELSE IF x[1].type = "string" /\ y[1].type = "string"
       THEN StringGreater(x[1].chars, y[1].chars)
  ELSE ToNumber(x[1]) > ToNumber(y[1])

MinDistance == 1
MaxDistance == 100

\* body('ageRange.min').optional().isInt({min: 18, max: 30}),
\* body('ageRange.max').optional().isInt({min: 18, max: 30}),
\* body('maxDistance').optional().isInt({min: 1, max: 100})
ValidPreferences(ageRange, maxDistance) ==
  /\ (ageRange # <<>> /\ ageRange[1].min # <<>>) => isInt(ageRange[1].min[1], MinAge, MaxAge)
  /\ (ageRange # <<>> /\ ageRange[1].max # <<>>) => isInt(ageRange[1].max[1], MinAge, MaxAge)
  /\ maxDistance # <<>> => isInt(maxDistance[1], MinDistance, MaxDistance)

\* if (maxDistance)
Truthy(v) == IF v.type = "number" THEN v.value # 0 ELSE v.chars # <<>>

\* user.preferences.ageRange = ageRange: the nested object is replaced, each
\* key cast to a Number; a key that was not sent is left out of the stored
\* object and is read back as the default of the schema.
\* if (maxDistance) user.preferences.maxDistance = maxDistance
Preferred(user, ageRange, maxDistance) ==
  [user EXCEPT
    !.preferences.ageRange =
       IF ageRange = <<>> THEN @
       ELSE [min |-> IF ageRange[1].min = <<>> THEN MinAge ELSE ToNumber(ageRange[1].min[1]),
             max |-> IF ageRange[1].max = <<>> THEN MaxAge ELSE ToNumber(ageRange[1].max[1])],
    !.preferences.maxDistance =
       IF maxDistance # <<>> /\ Truthy(maxDistance[1]) THEN ToNumber(maxDistance[1]) ELSE @]

\* The validators, const user = await User.findById(req.userId), the 404
\* answer, the 400 answer to ageRange.min > ageRange.max, and the
\* preferences assigned on the copy.
PreferencesFindUser(r, a, ageRange, maxDistance) ==
  /\ reqs[r].pc = "idle"
  /\ LET q == [Started("preferences", a, Ghost, NewUser, "savePreferences")
                 EXCEPT !.ageRange = ageRange, !.maxDistance = maxDistance] IN
     reqs' = [reqs EXCEPT ![r] =
       IF ~ValidPreferences(ageRange, maxDistance) THEN Respond(q, 400)
       ELSE IF a \notin DOMAIN users THEN Respond(q, 404)
       ELSE IF ageRange # <<>> /\ Greater(ageRange[1].min, ageRange[1].max)
       THEN Respond(q, 400)
       ELSE [q EXCEPT !.currentUser = Preferred(users[a], ageRange, maxDistance)]]
  /\ pre' = PreAtBegin
  /\ UNCHANGED <<users, chats, now, events>>

\* await user.save(): the paths the handler assigned are written from its
\* copy; res.json({message, preferences: user.preferences})
SavePreferences(r) ==
  LET q == reqs[r]
      copy == q.currentUser
  IN
  /\ q.op = "preferences" /\ q.pc = "savePreferences"
  /\ users' = [users EXCEPT ![q.userId] =
       [@ EXCEPT
          !.preferences.ageRange =
             IF q.ageRange # <<>> THEN copy.preferences.ageRange ELSE @,
          !.preferences.maxDistance =
             IF q.maxDistance # <<>> /\ Truthy(q.maxDistance[1])
             THEN copy.preferences.maxDistance ELSE @]]
  /\ reqs' = [reqs EXCEPT ![r] = Respond(q, 200)]
  /\ UNCHANGED <<chats, pre, now, events>>

----------------------------------------------------------------------------
(* GET /potential *)

\* const currentUser = await User.findById(req.userId), the 404 answer, and
\* the 400 answer to a user whose profile is not complete.
PotentialFindCurrent(r, a) ==
  /\ reqs[r].pc = "idle"
  /\ reqs' = [reqs EXCEPT ![r] =
       IF a \notin Users THEN Respond(Started("potential", a, Ghost, NewUser, "find"), 404)
       ELSE IF ~isProfileComplete(users[a])
       THEN Respond(Started("potential", a, Ghost, users[a], "find"), 400)
       ELSE Started("potential", a, Ghost, users[a], "find")]
  /\ pre' = PreAtBegin
  /\ UNCHANGED <<users, chats, now, events>>

\* Users already liked or disliked are offered again.
NotSeenButSelf(currentUser, id, t) == t # id

\* _id: {$ne: currentUser._id, $nin: [...likedUsers, ...dislikedUsers]}
NotSeen(currentUser, id, t) ==
  /\ t # id
  /\ ~Includes(currentUser.likedUsers, t)
  /\ ~Includes(currentUser.dislikedUsers, t)

\* The university is not part of the criteria.
EligibleAnywhere(currentUser, match) ==
  /\ match.isEmailVerified
  /\ match.profileCompleted
  /\ match.age >= currentUser.preferences.ageRange.min
  /\ match.age <= currentUser.preferences.ageRange.max

\* university: currentUser.university, isEmailVerified: true,
\* profileCompleted: true, age: {$gte: ageRange.min, $lte: ageRange.max}
Eligible(currentUser, match) ==
  /\ match.university = currentUser.university
  /\ match.isEmailVerified
  /\ match.profileCompleted
  /\ match.age >= currentUser.preferences.ageRange.min
  /\ match.age <= currentUser.preferences.ageRange.max

\* Only the caller's interest is looked at.
OneWayInterest(currentUser, match) ==
  currentUser.interestedIn # "both" => match.gender = currentUser.interestedIn

\* if (currentUser.interestedIn !== 'both') matchCriteria.gender =
\* currentUser.interestedIn; matchCriteria.$or = [{interestedIn:
\* currentUser.gender}, {interestedIn: 'both'}]
MutualInterest(currentUser, match) ==
  /\ currentUser.interestedIn # "both" => match.gender = currentUser.interestedIn
  /\ match.interestedIn = currentUser.gender \/ match.interestedIn = "both"

\* The angle c that calculateDistance computes from the place p to the
\* place q (2 * atan2(sqrt(a), sqrt(1 - a)) of the haversine a), in
\* millionths of a radian, for each ordered pair of the places.
CentralAngle(p, q) ==
  CASE p = q -> 0
    [] p = Origin /\ q = Campus -> 885345
    [] p = Origin /\ q = Far -> 902360
    [] p = Origin /\ q = Near -> 886876
    [] p = Origin /\ q = Door -> 885396
    [] p = Origin /\ q = Meridian -> 872665
    [] p = Origin /\ q = Quarter -> 1570796
    [] p = Campus /\ q = Origin -> 885345
    [] p = Campus /\ q = Far -> 17453
    [] p = Campus /\ q = Near -> 1571
    [] p = Campus /\ q = Door -> 52
    [] p = Campus /\ q = Meridian -> 112104
    [] p = Campus /\ q = Quarter -> 1458944
    [] p = Far /\ q = Origin -> 902360
    [] p = Far /\ q = Campus -> 17453
    [] p = Far /\ q = Near -> 15882
    [] p = Far /\ q = Door -> 17401
    [] p = Far /\ q = Meridian -> 112290
    [] p = Far /\ q = Quarter -> 1461297
    [] p = Near /\ q = Origin -> 886876
    [] p = Near /\ q = Campus -> 1571
    [] p = Near /\ q = Far -> 15882
    [] p = Near /\ q = Door -> 1518
    [] p = Near /\ q = Meridian -> 112010
    [] p = Near /\ q = Quarter -> 1459155
    [] p = Door /\ q = Origin -> 885396
    [] p = Door /\ q = Campus -> 52
    [] p = Door /\ q = Far -> 17401
    [] p = Door /\ q = Near -> 1518
    [] p = Door /\ q = Meridian -> 112100
    [] p = Door /\ q = Quarter -> 1458951
    [] p = Meridian /\ q = Origin -> 872665
    [] p = Meridian /\ q = Campus -> 112104
    [] p = Meridian /\ q = Far -> 112290
    [] p = Meridian /\ q = Near -> 112010
    [] p = Meridian /\ q = Door -> 112100
    [] p = Meridian /\ q = Quarter -> 1570796
    [] p = Quarter /\ q = Origin -> 1570796
    [] p = Quarter /\ q = Campus -> 1458944
    [] p = Quarter /\ q = Far -> 1461297
    [] p = Quarter /\ q = Near -> 1459155
    [] p = Quarter /\ q = Door -> 1458951
    [] p = Quarter /\ q = Meridian -> 1570796

\* The radius of the sphere of $near, in metres, and of calculateDistance, in
\* kilometres.
NearRadius == 6378100
R == 6371

\* The length in metres of the arc of angle millionths of a radian on a
\* sphere of radius km kilometres.
Arc(km, angle) == km * (angle \div 1000) + (km * (angle % 1000)) \div 1000

\* The distance of $near, in metres.
NearDistance(p, q) ==
  Arc(NearRadius \div 1000, CentralAngle(p, q))
    + ((NearRadius % 1000) * (CentralAngle(p, q) \div 1000)) \div 1000

\* The distance is measured from [0, 0] whatever the first point.
calculateDistanceFromOrigin(lat1, lon1, lat2, lon2) ==
  Arc(R, CentralAngle(Origin, <<lon2, lat2>>))

\* calculateDistance(lat1, lon1, lat2, lon2), in metres
calculateDistance(lat1, lon1, lat2, lon2) ==
  Arc(R, CentralAngle(<<lon1, lat1>>, <<lon2, lat2>>))

\* A call of calculateDistance on the coordinates of u then those of v.
Calculate(r, u, v) ==
  LET p == users[u].location.coordinates
      q == users[v].location.coordinates
  IN
  /\ reqs[r].pc = "idle"
  /\ reqs' = [reqs EXCEPT ![r] =
       [Idle EXCEPT !.op = "distance", !.pc = "done", !.userId = u, !.target = v,
                    !.distance = <<calculateDistance(p[2], p[1], q[2], q[1])>>]]
  /\ pre' = PreAtBegin
  /\ UNCHANGED <<users, chats, now, events>>

\* coordinates[0] !== 0 && coordinates[1] !== 0
HasLocation(user) ==
  user.location.coordinates[1] # 0 /\ user.location.coordinates[2] # 0

\* location: {$near: {$geometry: currentUser.location, $maxDistance:
\* maxDistance * 1000}}, asked only of a caller who has a location
WithinReach(currentUser, match) ==
  HasLocation(currentUser) =>
    NearDistance(currentUser.location.coordinates, match.location.coordinates)
      <= currentUser.preferences.maxDistance * 1000

\* matchCriteria
MatchCriteria(currentUser, id, t, match) ==
  /\ NotSeen(currentUser, id, t)
  /\ Eligible(currentUser, match)
  /\ MutualInterest(currentUser, match)
  /\ WithinReach(currentUser, match)

\* .limit(10)
Limit == 10

\* .limit(10).sort({lastActive: -1}): the Limit most recently active of the
\* stored users found, most recent first, in any order among users active at
\* the same time.
RECURSIVE Ranked(_, _)
Ranked(found, n) ==
  IF n = 0 \/ found = {} THEN {<<>>}
  ELSE UNION {{<<t>> \o rest : rest \in Ranked(found \ {t}, n - 1)} :
                t \in {x \in found :
                         \A y \in found : users[x].lastActive >= users[y].lastActive}}

\* The query has no limit.
FoundUncapped(found) == Ranked(found, Cardinality(found))

Found(found) == Ranked(found, Limit)

\* distance: null unless both have a location; distance ? Math.round(distance)
\* : null, the distance in kilometres, null as no entry
Distance(currentUser, match) ==
  LET p == currentUser.location.coordinates
      q == match.location.coordinates
      d == calculateDistance(p[2], p[1], q[2], q[1])
  IN IF HasLocation(currentUser) /\ HasLocation(match) /\ p # q
     THEN <<(d + 500) \div 1000>>
     ELSE <<>>

\* const potentialMatches = await User.find(matchCriteria)...; the distance
\* of each; res.json({matches})
PotentialFind(r) ==
  LET q == reqs[r]
      found == {t \in DOMAIN users : MatchCriteria(q.currentUser, q.userId, t, users[t])}
  IN
  /\ q.op = "potential" /\ q.pc = "find"
  /\ \E result \in Found(found) :
       reqs' = [reqs EXCEPT ![r] =
         [Respond(q, 200) EXCEPT !.matches =
            [i \in 1..Len(result) |->
               [id |-> result[i], distance |-> Distance(q.currentUser, users[result[i]])]]]]
  /\ UNCHANGED <<users, chats, pre, now, events>>

----------------------------------------------------------------------------
(* Specifications *)

\* Time passes: the next new Date() is later.
Tick ==
  /\ now < MaxClock
  /\ now' = now + 1
  /\ UNCHANGED <<users, chats, reqs, pre, events>>

\* The response was sent; the slot serves the next request.
Retire(r) ==
  /\ reqs[r].pc = "done"
  /\ reqs' = [reqs EXCEPT ![r] = Idle]
  /\ pre' = Snapshot
  /\ UNCHANGED <<users, chats, now, events>>

\* A save rejects (the store is unreachable, the write is refused): the
\* handler's catch answers 500 and what it had not yet saved is lost.
SaveFails(r) ==
  /\ reqs[r].pc \in {"saveTarget", "saveCurrent", "saveChat"}
  /\ reqs' = [reqs EXCEPT ![r] = Respond(reqs[r], 500)]
  /\ UNCHANGED <<users, chats, pre, now, events>>

Init ==
  /\ users = [u \in Users |-> NewUser]
  /\ chats = <<>>
  /\ reqs = [s \in Slots |-> Idle]
  /\ pre = Snapshot
  /\ now = 0
  /\ events = <<>>

\* Spec: the match routes, requests served one at a time, each to completion.
SeqActors == {"a", "b"}
SeqTargets == {"a", "b", Ghost}

Next ==
  \/ \E a \in SeqActors, t \in SeqTargets : NoneInFlight /\ LikeFindCurrent(1, a, t)
  \/ \E a \in SeqActors, t \in SeqTargets : NoneInFlight /\ DislikeFindCurrent(1, a, t)
  \/ \E a \in SeqActors, t \in SeqTargets : NoneInFlight /\ UnmatchFindCurrent(1, a, t)
  \/ \E r \in Slots : LikeFindTarget(r)
  \/ \E r \in Slots : LikeSaveTarget(r)
  \/ \E r \in Slots : LikeSaveCurrent(r)
  \/ \E r \in Slots : DislikeSaveCurrent(r)
  \/ \E r \in Slots : UnmatchFindTarget(r)
  \/ \E r \in Slots : UnmatchSaveCurrent(r)
  \/ \E r \in Slots : UnmatchSaveTarget(r)
  \/ \E r \in Slots : Retire(r)

Spec == Init /\ [][Next]_vars

\* SpecFail: the same, and a save may reject.  Likes are issued while no
\* array holds MaxCopies copies of an id.
Small == \A u \in Users, i \in Ids : users[u].matches[i] < MaxCopies

NextFail ==
  \/ \E a \in SeqActors, t \in SeqTargets :
       NoneInFlight /\ Small /\ LikeFindCurrent(1, a, t)
  \/ \E a \in SeqActors, t \in SeqTargets : NoneInFlight /\ DislikeFindCurrent(1, a, t)
  \/ \E a \in SeqActors, t \in SeqTargets : NoneInFlight /\ UnmatchFindCurrent(1, a, t)
  \/ \E r \in Slots : LikeFindTarget(r)
  \/ \E r \in Slots : LikeSaveTarget(r)
  \/ \E r \in Slots : LikeSaveCurrent(r)
  \/ \E r \in Slots : DislikeSaveCurrent(r)
  \/ \E r \in Slots : UnmatchFindTarget(r)
  \/ \E r \in Slots : UnmatchSaveCurrent(r)
  \/ \E r \in Slots : UnmatchSaveTarget(r)
  \/ \E r \in Slots : SaveFails(r)
  \/ \E r \in Slots : Retire(r)

SpecFail == Init /\ [][NextFail]_vars

\* SpecChat: like, unmatch and the chat routes, one request at a time.
NextChat ==
  \/ \E a \in SeqActors, t \in SeqTargets : NoneInFlight /\ LikeFindCurrent(1, a, t)
  \/ \E a \in SeqActors, t \in SeqTargets : NoneInFlight /\ UnmatchFindCurrent(1, a, t)
  \/ \E a \in SeqActors, t \in SeqTargets : NoneInFlight /\ ChatFindCurrent(1, a, t)
  \/ \E a \in SeqActors, c \in 0..Len(chats), m \in Contents :
       NoneInFlight /\ SendFindChat(1, a, c, m)
  \/ \E r \in Slots : LikeFindTarget(r)
  \/ \E r \in Slots : LikeSaveTarget(r)
  \/ \E r \in Slots : LikeSaveCurrent(r)
  \/ \E r \in Slots : UnmatchFindTarget(r)
  \/ \E r \in Slots : UnmatchSaveCurrent(r)
  \/ \E r \in Slots : UnmatchSaveTarget(r)
  \/ \E r \in Slots : ChatFindOther(r)
  \/ \E r \in Slots : ChatFindOne(r)
  \/ \E r \in Slots : ChatSave(r)
  \/ \E r \in Slots : SendSave(r)
  \/ \E r \in Slots : Retire(r)

SpecChat == Init /\ [][NextChat]_vars

\* SpecConc: up to MaxReqs requests of like, dislike, unmatch and chat-with in
\* flight together, interleaved at their awaits, starting from the states
\* earlier requests left: nobody liked anybody, b liked a, a and b matched.
ConcActors == {"a", "b"}
ConcTargets == {"a", "b"}

NobodyLiked == [u \in Users |-> NewUser]
BLikedA == [NobodyLiked EXCEPT !["b"] = Liked(@, "a", FALSE)]
ABMatched == [BLikedA EXCEPT !["b"] = LikedBack(@, "a"), !["a"] = Liked(@, "b", TRUE)]

InitConc ==
  /\ users \in {NobodyLiked, BLikedA, ABMatched}
  /\ chats = <<>>
  /\ reqs = [s \in Slots |-> Idle]
  /\ pre = Snapshot
  /\ now = 0
  /\ events = <<>>

\* Requests take the slots in the order they arrive.
Arrives(r) == \A s \in Slots : s < r => reqs[s].pc # "idle"

NextConc ==
  \/ \E r \in Slots, a \in ConcActors, t \in ConcTargets :
       Arrives(r) /\ LikeFindCurrent(r, a, t)
  \/ \E r \in Slots, a \in ConcActors, t \in ConcTargets :
       Arrives(r) /\ DislikeFindCurrent(r, a, t)
  \/ \E r \in Slots, a \in ConcActors, t \in ConcTargets :
       Arrives(r) /\ UnmatchFindCurrent(r, a, t)
  \/ \E r \in Slots, a \in ConcActors, t \in ConcTargets :
       Arrives(r) /\ ChatFindCurrent(r, a, t)
  \/ \E r \in Slots : LikeFindTarget(r)
  \/ \E r \in Slots : LikeSaveTarget(r)
  \/ \E r \in Slots : LikeSaveCurrent(r)
  \/ \E r \in Slots : DislikeSaveCurrent(r)
  \/ \E r \in Slots : UnmatchFindTarget(r)
  \/ \E r \in Slots : UnmatchSaveCurrent(r)
  \/ \E r \in Slots : UnmatchSaveTarget(r)
  \/ \E r \in Slots : ChatFindOther(r)
  \/ \E r \in Slots : ChatFindOne(r)
  \/ \E r \in Slots : ChatSave(r)

SpecConc == InitConc /\ [][NextConc]_vars

\* SpecTrio: the match routes, one request at a time, among three users,
\* starting from the state earlier likes left: a and c matched, b liked c.
TrioTargets == {"a", "b", "c"}

CLikedA == [NobodyLiked EXCEPT !["c"] = Liked(@, "a", FALSE)]
ACMatched == [CLikedA EXCEPT !["c"] = LikedBack(@, "a"), !["a"] = Liked(@, "c", TRUE)]
Trio == [ACMatched EXCEPT !["b"] = Liked(@, "c", FALSE)]

InitTrio ==
  /\ users = Trio
  /\ chats = <<>>
  /\ reqs = [s \in Slots |-> Idle]
  /\ pre = Snapshot
  /\ now = 0
  /\ events = <<>>

NextTrio ==
  \/ \E a \in SeqActors, t \in TrioTargets : NoneInFlight /\ LikeFindCurrent(1, a, t)
  \/ \E a \in SeqActors, t \in TrioTargets : NoneInFlight /\ DislikeFindCurrent(1, a, t)
  \/ \E a \in SeqActors, t \in TrioTargets : NoneInFlight /\ UnmatchFindCurrent(1, a, t)
  \/ \E r \in Slots : LikeFindTarget(r)
  \/ \E r \in Slots : LikeSaveTarget(r)
  \/ \E r \in Slots : LikeSaveCurrent(r)
  \/ \E r \in Slots : DislikeSaveCurrent(r)
  \/ \E r \in Slots : UnmatchFindTarget(r)
  \/ \E r \in Slots : UnmatchSaveCurrent(r)
  \/ \E r \in Slots : UnmatchSaveTarget(r)
  \/ \E r \in Slots : Retire(r)

SpecTrio == InitTrio /\ [][NextTrio]_vars

\* SpecMsg: the chat routes, one request at a time, while the clock runs,
\* starting with a and b matched and no chat stored.  A message id is a
\* number from 0 (no message) to the last id a chat gives out.
MessageIds == 0..MaxMsgs

InitMsg ==
  /\ users = ABMatched
  /\ chats = <<>>
  /\ reqs = [s \in Slots |-> Idle]
  /\ pre = Snapshot
  /\ now = 0
  /\ events = <<>>

NextMsg ==
  \/ \E a \in SeqActors, t \in SeqTargets : NoneInFlight /\ ChatFindCurrent(1, a, t)
  \/ \E a \in Users, c \in 0..Len(chats), m \in Contents :
       NoneInFlight /\ SendFindChat(1, a, c, m)
  \/ \E a \in Users, c \in 0..Len(chats), m \in MessageIds :
       NoneInFlight /\ DeleteFindChat(1, a, c, m)
  \/ \E r \in Slots : ChatFindOther(r)
  \/ \E r \in Slots : ChatFindOne(r)
  \/ \E r \in Slots : ChatSave(r)
  \/ \E r \in Slots : SendSave(r)
  \/ \E r \in Slots : DeleteSave(r)
  \/ \E r \in Slots : Retire(r)
  \/ Tick

SpecMsg == InitMsg /\ [][NextMsg]_vars

\* SpecConcSend: up to MaxReqs sends in flight together while the clock runs,
\* on the chat that a and b, matched, have opened.
InitConcSend ==
  /\ users = ABMatched
  /\ chats = <<NewChat("a", "b", 0)>>
  /\ reqs = [s \in Slots |-> Idle]
  /\ pre = Snapshot
  /\ now = 0
  /\ events = <<>>

\* The contents sent together: one refused, two stored.
ConcContents == {"", "hi", " yo "}

NextConcSend ==
  \/ \E r \in Slots, a \in ConcActors, c \in 0..Len(chats), m \in ConcContents :
       Arrives(r) /\ SendFindChat(r, a, c, m)
  \/ \E r \in Slots : SendSave(r)
  \/ Tick

SpecConcSend == InitConcSend /\ [][NextConcSend]_vars

\* SpecConcDel: up to MaxReqs sends and deletes in flight together while the
\* clock runs, on the chat of a and b, matched, that holds one message, sent
\* by either of them.
InitConcDel ==
  /\ users = ABMatched
  /\ \E sender \in ConcActors :
       chats = <<Sent(NewChat("a", "b", 0), sender, "hi", 0, 0)>>
  /\ reqs = [s \in Slots |-> Idle]
  /\ pre = Snapshot
  /\ now = 0
  /\ events = <<>>

NextConcDel ==
  \/ \E r \in Slots, a \in ConcActors, c \in 0..Len(chats), m \in ConcContents :
       Arrives(r) /\ SendFindChat(r, a, c, m)
  \/ \E r \in Slots, a \in ConcActors, c \in 0..Len(chats), m \in MessageIds :
       Arrives(r) /\ DeleteFindChat(r, a, c, m)
  \/ \E r \in Slots : SendSave(r)
  \/ \E r \in Slots : DeleteSave(r)
  \/ Tick

SpecConcDel == InitConcDel /\ [][NextConcDel]_vars

\* SpecRead: sending, marking read and listing, one request at a time, on the
\* chat that a and b, matched, have opened; c is a third user.
MaxPage == 3
MaxLimit == 3

NextRead ==
  \/ \E a \in Users, c \in 0..Len(chats), m \in Contents :
       NoneInFlight /\ SendFindChat(1, a, c, m)
  \/ \E a \in Users, c \in 0..Len(chats) :
       NoneInFlight /\ MarkReadFindChat(1, a, c)
  \/ \E a \in Users, c \in 0..Len(chats), page \in 1..MaxPage, limit \in 1..MaxLimit :
       NoneInFlight /\ ListMessages(1, a, c, page, limit)
  \/ \E r \in Slots : SendSave(r)
  \/ \E r \in Slots : MarkReadSave(r)
  \/ \E r \in Slots : Retire(r)

SpecRead == InitConcSend /\ [][NextRead]_vars

\* SpecPage: the list of messages, on a chat of a and b found with up to
\* MaxList messages of a, stored in the order they were saved, each stamped
\* with the time of its save.
MaxList == 4

NonDecreasing(times) ==
  \A i, j \in 1..Len(times) : i < j => times[i] <= times[j]

SavedAt(times) ==
  [NewChat("a", "b", 0) EXCEPT
     !.messages = [i \in 1..Len(times) |-> NewMessage(i, "a", "hi", times[i])],
     !.lastMessage = IF times = <<>> THEN @
                     ELSE <<[content |-> "hi", sender |-> "a",
                             timestamp |-> times[Len(times)]]>>,
     !.nextId = Len(times) + 1]

InitPage ==
  /\ users = ABMatched
  /\ \E n \in 0..MaxList : \E times \in [1..n -> 0..MaxClock] :
       /\ NonDecreasing(times)
       /\ chats = <<SavedAt(times)>>
       /\ now = IF n = 0 THEN 0 ELSE times[n]
  /\ reqs = [s \in Slots |-> Idle]
  /\ pre = Snapshot
  /\ events = <<>>

NextPage ==
  \/ \E a \in Users, c \in 0..Len(chats), page \in 1..MaxPage, limit \in 1..MaxLimit :
       NoneInFlight /\ ListMessages(1, a, c, page, limit)
  \/ \E r \in Slots : Retire(r)

SpecPage == InitPage /\ [][NextPage]_vars

\* A user after the email was verified and, if complete, after the profile
\* was filled in and a photo uploaded, located at place, last active at
\* lastActive.
Member(university, age, gender, interestedIn, verified, complete, place, lastActive) ==
  [Registered(university, age, gender, interestedIn) EXCEPT
     !.isEmailVerified = verified,
     !.bio = IF complete THEN "bio" ELSE "",
     !.photos = IF complete THEN <<[url |-> 1, isMain |-> TRUE]>> ELSE <<>>,
     !.profileCompleted = complete,
     !.location = [coordinates |-> place],
     !.lastActive = lastActive]

\* update-preferences with ageRange {min, max}
Prefers(user, min, max) ==
  [user EXCEPT !.preferences.ageRange = [min |-> min, max |-> max]]

\* SpecCand: the candidates offered to a, of university north, for every
\* profile of a and of b drawn from the values below; c is a complete,
\* verified member of a's university, interested in everyone.  Nobody has
\* liked or disliked anybody.
DrawnAges == {19, 20, 25, 26}
DrawnRanges == {<<MinAge, MaxAge>>, <<20, 25>>}
CandActors == {"a", Ghost}

InitCand ==
  /\ \E g \in Genders, i \in Interests, range \in DrawnRanges,
        complete \in BOOLEAN, place \in {Origin, Campus} :
     \E bu \in Universities, bv \in BOOLEAN, bc \in BOOLEAN, ba \in DrawnAges,
        bg \in Genders, bi \in Interests, bp \in Places :
       users = [u \in Users |->
                  IF u = "a"
                  THEN Prefers(Member("north", 20, g, i, TRUE, complete, place, 0),
                               range[1], range[2])
                  ELSE IF u = "b" THEN Member(bu, ba, bg, bi, bv, bc, bp, 2)
                  ELSE Member("north", 20, "female", "both", TRUE, TRUE, Campus, 1)]
  /\ chats = <<>>
  /\ reqs = [s \in Slots |-> Idle]
  /\ pre = Snapshot
  /\ now = 2
  /\ events = <<>>

NextCand ==
  \/ \E a \in CandActors : NoneInFlight /\ PotentialFindCurrent(1, a)
  \/ \E r \in Slots : PotentialFind(r)
  \/ \E r \in Slots : Retire(r)

SpecCand == InitCand /\ [][NextCand]_vars

\* SpecSeen: likes, dislikes, unmatches and the candidates, one request at a
\* time, among three complete, verified members located on the campus and
\* interested in everyone; a and b are of university north, c of either.
SeenActors == {"a", "c"}

InitSeen ==
  /\ \E cu \in Universities :
       users = [u \in Users |->
                  Member(IF u = "c" THEN cu ELSE "north", 20, "female", "both", TRUE, TRUE,
                         Campus, IF u = "a" THEN 0 ELSE IF u = "b" THEN 1 ELSE 2)]
  /\ chats = <<>>
  /\ reqs = [s \in Slots |-> Idle]
  /\ pre = Snapshot
  /\ now = 2
  /\ events = <<>>

NextSeen ==
  \/ \E a \in SeenActors, t \in Users : NoneInFlight /\ LikeFindCurrent(1, a, t)
  \/ \E t \in Users : NoneInFlight /\ DislikeFindCurrent(1, "a", t)
  \/ \E t \in Users : NoneInFlight /\ UnmatchFindCurrent(1, "a", t)
  \/ NoneInFlight /\ PotentialFindCurrent(1, "a")
  \/ \E r \in Slots : LikeFindTarget(r)
  \/ \E r \in Slots : LikeSaveTarget(r)
  \/ \E r \in Slots : LikeSaveCurrent(r)
  \/ \E r \in Slots : DislikeSaveCurrent(r)
  \/ \E r \in Slots : UnmatchFindTarget(r)
  \/ \E r \in Slots : UnmatchSaveCurrent(r)
  \/ \E r \in Slots : UnmatchSaveTarget(r)
  \/ \E r \in Slots : PotentialFind(r)
  \/ \E r \in Slots : Retire(r)

SpecSeen == InitSeen /\ [][NextSeen]_vars

\* update-preferences with maxDistance
Reach(user, maxDistance) ==
  [user EXCEPT !.preferences.maxDistance = maxDistance]

\* SpecGeo: the candidates offered to a, among three complete, verified
\* members of one university interested in everyone, for every place of a,
\* b and c and every maxDistance of a drawn from the values below; b was
\* last active when c was, or later.
ActorPlaces == {Origin, Campus, Meridian}
GeoPlaces == {Origin, Campus, Door, Near, Far}
DrawnReaches == {5, DefaultMaxDistance}

InitGeo ==
  /\ \E ap \in ActorPlaces, am \in DrawnReaches, bp \in GeoPlaces, cp \in GeoPlaces,
        bl \in 1..MaxClock :
       users = [u \in Users |->
                  IF u = "a"
                  THEN Reach(Member("north", 20, "female", "both", TRUE, TRUE, ap, 0), am)
                  ELSE IF u = "b"
                  THEN Member("north", 20, "female", "both", TRUE, TRUE, bp, bl)
                  ELSE Member("north", 20, "female", "both", TRUE, TRUE, cp, 1)]
  /\ chats = <<>>
  /\ reqs = [s \in Slots |-> Idle]
  /\ pre = Snapshot
  /\ now = MaxClock
  /\ events = <<>>

NextGeo ==
  \/ NoneInFlight /\ PotentialFindCurrent(1, "a")
  \/ \E r \in Slots : PotentialFind(r)
  \/ \E r \in Slots : Retire(r)

SpecGeo == InitGeo /\ [][NextGeo]_vars

\* SpecRank: the candidates offered to a when more than Limit users are
\* stored: a and the users of Others, complete, verified members of one
\* university interested in everyone, without a location, b and c verified
\* or not.  The users were last active at different times, in the order of
\* Others rotated by shift, or two by two at the same time.
Others == <<"b", "c", "d", "e", "f", "g", "h", "i", "j", "k", "l">>
Crowd == {"a"} \cup {Others[n] : n \in 1..Len(Others)}
NobodyYet == [i \in Crowd \cup {Ghost} |-> 0]

InitRank ==
  /\ \E shift \in 0..(Len(Others) - 1), pairs \in BOOLEAN, bv \in BOOLEAN, cv \in BOOLEAN :
       users = [u \in Crowd |->
                  LET n == CHOOSE k \in 0..Len(Others) :
                             IF u = "a" THEN k = 0 ELSE k > 0 /\ Others[k] = u
                      turn == (n + shift) % Len(Others)
                  IN
                  [Member("north", 20, "female", "both",
                          IF u = "b" THEN bv ELSE IF u = "c" THEN cv ELSE TRUE,
                          TRUE, Origin, IF pairs THEN turn \div 2 ELSE turn)
                     EXCEPT !.likedUsers = NobodyYet, !.dislikedUsers = NobodyYet,
                            !.matches = NobodyYet]]
  /\ chats = <<>>
  /\ reqs = [s \in Slots |-> Idle]
  /\ pre = Snapshot
  /\ now = Len(Others)
  /\ events = <<>>

NextRank ==
  \/ NoneInFlight /\ PotentialFindCurrent(1, "a")
  \/ \E r \in Slots : PotentialFind(r)
  \/ \E r \in Slots : Retire(r)

SpecRank == InitRank /\ [][NextRank]_vars

\* SpecPhotos: the bio and the photos of a, a verified user who has just
\* registered, one request at a time: updates of the bio, uploads of up to
\* MaxFiles files, and the choice and the removal of a photo by its url.
MaxFiles == 3

BioUpdates == {[bio |-> b, age |-> <<>>, interestedIn |-> <<>>] :
                 b \in {<<>>} \cup {<<bio>> : bio \in Bios}}

InitPhotos ==
  /\ users = [u \in Users |-> [NewUser EXCEPT !.isEmailVerified = TRUE]]
  /\ chats = <<>>
  /\ reqs = [s \in Slots |-> Idle]
  /\ pre = Snapshot
  /\ now = 0
  /\ events = <<>>

NextPhotos ==
  \/ \E updates \in BioUpdates : NoneInFlight /\ UpdateFindUser(1, "a", updates)
  \/ \E k \in 0..MaxFiles : NoneInFlight /\ UploadFindUser(1, "a", k)
  \/ \E photoUrl \in {0} \cup Urls : NoneInFlight /\ SetMainFindUser(1, "a", photoUrl)
  \/ \E photoUrl \in {0} \cup Urls : NoneInFlight /\ DeletePhotoFindUser(1, "a", photoUrl)
  \/ \E r \in Slots : SaveUser(r)
  \/ \E r \in Slots : Retire(r)

SpecPhotos == InitPhotos /\ [][NextPhotos]_vars

\* SpecPrefs: the preferences of a, a verified user who has just registered,
\* one request at a time; each field of the body is left out or drawn from
\* numbers and numerals at, inside and outside the ends of its range.
DrawnAgeValues ==
  {Num(17), Num(18), Num(25), Num(30), Num(31),
   Str(<<"2", "0">>), Str(<<"+", "2", "5">>), Str(<<"3", "1">>)}

DrawnDistanceValues ==
  {Num(0), Num(1), Num(100), Num(101), Str(<<"7">>)}

Optional(values) == {<<>>} \cup {<<v>> : v \in values}

DrawnAgeRanges ==
  {<<>>} \cup {<<[min |-> min, max |-> max]>> :
                 min \in Optional(DrawnAgeValues), max \in Optional(DrawnAgeValues)}

NextPrefs ==
  \/ \E ageRange \in DrawnAgeRanges, maxDistance \in Optional(DrawnDistanceValues) :
       NoneInFlight /\ PreferencesFindUser(1, "a", ageRange, maxDistance)
  \/ \E r \in Slots : SavePreferences(r)
  \/ \E r \in Slots : Retire(r)

SpecPrefs == InitPhotos /\ [][NextPrefs]_vars

\* SpecDist: calculateDistance on the coordinates of two users, drawn from
\* all the places, in both orders and on one user's coordinates twice.
AllPlaces == {Origin, Campus, Far, Near, Door, Meridian, Quarter}

Measured == {"a", "b"}

InitDist ==
  /\ \E p \in AllPlaces, q \in AllPlaces :
       users = [u \in Users |->
         [NewUser EXCEPT !.location.coordinates =
            IF u = "a" THEN p ELSE IF u = "b" THEN q ELSE Origin]]
  /\ chats = <<>>
  /\ reqs = [s \in Slots |-> Idle]
  /\ pre = Snapshot
  /\ now = 0
  /\ events = <<>>

NextDist ==
  \/ \E r \in Slots, u \in Measured, v \in Measured : Calculate(r, u, v)
  \/ \E r \in Slots : Retire(r)

SpecDist == InitDist /\ [][NextDist]_vars

\* SpecSelf: likes and chat-with requests of users on their own id, up to
\* MaxReqs in flight together, the slots serving one request after another.
NextSelf ==
  \/ \E r \in Slots, a \in ConcActors : Arrives(r) /\ LikeFindCurrent(r, a, a)
  \/ \E r \in Slots, a \in ConcActors : Arrives(r) /\ ChatFindCurrent(r, a, a)
  \/ \E r \in Slots : LikeFindTarget(r)
  \/ \E r \in Slots : LikeSaveTarget(r)
  \/ \E r \in Slots : LikeSaveCurrent(r)
  \/ \E r \in Slots : ChatFindOther(r)
  \/ \E r \in Slots : ChatFindOne(r)
  \/ \E r \in Slots : ChatSave(r)
  \/ \E r \in Slots : Retire(r)

SpecSelf == Init /\ [][NextSelf]_vars

----------------------------------------------------------------------------
(* Properties *)

\* No request is between two of its awaits.
Quiet == \A s \in Slots : reqs[s].pc \in {"idle", "done"}

Symmetric ==
  \A u \in Users, v \in Users :
    Includes(users[u].matches, v) <=> Includes(users[v].matches, u)

MatchedPair(us, x, y) == Includes(us[x].matches, y) /\ Includes(us[y].matches, x)

\* C1: once concurrently running like and unmatch requests on a pair have all
\* completed, B is in A.matches if and only if A is in B.matches.
\* (Stated for requests between two different users that were all answered
\* with success.)
C1_SymmetricAfterRaces ==
  (\A s \in Slots :
     \/ reqs[s].pc = "idle"
     \/ /\ reqs[s].pc = "done" /\ reqs[s].op \in {"like", "unmatch"}
        /\ reqs[s].userId # reqs[s].target /\ reqs[s].status = 200)
    => Symmetric

\* C2: after any sequence of like, dislike and unmatch requests run one at a
\* time to completion, A is in B.matches if and only if B is in A.matches.
C2_MatchesSymmetric == Quiet => Symmetric

\* A like has just completed a mutual match of a and b.
C2_Witness ==
  /\ reqs[1].pc = "done" /\ reqs[1].op = "like" /\ reqs[1].isMatch
  /\ reqs[1].userId = "a" /\ reqs[1].target = "b"
  /\ MatchedPair(users, "a", "b")

\* C3: under any interleaving of like, dislike and unmatch requests no id
\* appears more than once in any user's matches.
C3_NoDuplicateMatches == \A u \in Users, v \in Ids : users[u].matches[v] <= 1

\* C4: the two participants of every stored chat are in each other's matches,
\* also after an unmatch of a pair that has a chat.
C4_ChatsOnlyBetweenMatched ==
  Quiet => \A i \in 1..Len(chats) :
             MatchedPair(users, chats[i].participants[1], chats[i].participants[2])

\* C5: at most one chat is stored per unordered pair of users, also when both
\* open the chat concurrently for the first time.
C5_OneChatPerPair ==
  \A i \in 1..Len(chats), j \in 1..Len(chats) :
    Participants(chats[i]) = Participants(chats[j]) => i = j

\* C6: a message is appended to a chat only while its two participants are
\* matched: after a completed unmatch a send on their chat is refused.
C6_SendOnlyWhileMatched ==
  \A s \in Slots :
    (reqs[s].pc = "done" /\ reqs[s].op = "send" /\ reqs[s].status = 201)
      => MatchedPair(pre.users, chats[reqs[s].chatId].participants[1],
                                chats[reqs[s].chatId].participants[2])

\* C7: no target is in both likedUsers and dislikedUsers of a user.
C7_LikedDislikedDisjoint ==
  Quiet => \A u \in Users : \A t \in Ids \ {u} :
             ~(Includes(users[u].likedUsers, t) /\ Includes(users[u].dislikedUsers, t))

\* C8: a like or an unmatch that fails at one of its saves leaves the stored
\* users as they were: no profile of the pair is updated without the other.
C8_AllOrNothing ==
  \A s \in Slots :
    (/\ reqs[s].pc = "done" /\ reqs[s].op \in {"like", "unmatch"}
     /\ reqs[s].userId # reqs[s].target /\ reqs[s].status = 500)
      => users = pre.users

\* C9: a like of a target already in the actor's likedUsers is answered 400
\* (already liked) and leaves every stored user and chat unchanged.
C9_RepeatLikeRejected ==
  \A s \in Slots :
    (/\ reqs[s].pc = "done" /\ reqs[s].op = "like"
     /\ Includes(pre.users[reqs[s].userId].likedUsers, reqs[s].target))
      => reqs[s].status = 400 /\ users = pre.users /\ chats = pre.chats

\* a has liked b, who has not liked back, and likes b again.
C9_Witness ==
  /\ reqs[1].pc = "done" /\ reqs[1].op = "like"
  /\ reqs[1].userId = "a" /\ reqs[1].target = "b"
  /\ Includes(pre.users["a"].likedUsers, "b")
  /\ ~Includes(pre.users["a"].matches, "b")

\* C10: a successful dislike adds the target to the actor's dislikedUsers and
\* changes nothing else: not the actor's likedUsers or matches, not any set of
\* another user, not the chats.
C10_DislikeFrame ==
  \A s \in Slots :
    (reqs[s].pc = "done" /\ reqs[s].op = "dislike" /\ reqs[s].status = 200)
      => LET a == reqs[s].userId  t == reqs[s].target IN
         /\ users[a].dislikedUsers = Push(pre.users[a].dislikedUsers, t)
         /\ users[a].likedUsers = pre.users[a].likedUsers
         /\ users[a].matches = pre.users[a].matches
         /\ \A u \in Users \ {a} : users[u] = pre.users[u]
         /\ chats = pre.chats

\* a dislikes b, whom a had liked and matched with.
C10_Witness ==
  /\ reqs[1].pc = "done" /\ reqs[1].op = "dislike" /\ reqs[1].status = 200
  /\ reqs[1].userId = "a" /\ reqs[1].target = "b"
  /\ MatchedPair(pre.users, "a", "b")
  /\ Includes(users["a"].dislikedUsers, "b")

\* The relations between x and y that an unmatch of the pair does not touch:
\* every entry of likedUsers and matches other than y in x's and x in y's.
OtherEntry(u, v, a, t) == ~(u = a /\ v = t) /\ ~(u = t /\ v = a)

\* C11: after a successful unmatch(A,B), B is not in A.matches, A is not in
\* B.matches, B is not in A.likedUsers and A is not in B.likedUsers; the
\* dislikedUsers of every user and every relation with third users are as
\* before.
C11_UnmatchEffect ==
  \A s \in Slots :
    (reqs[s].pc = "done" /\ reqs[s].op = "unmatch" /\ reqs[s].status = 200)
      => LET a == reqs[s].userId  t == reqs[s].target IN
         /\ ~Includes(users[a].matches, t) /\ ~Includes(users[t].matches, a)
         /\ ~Includes(users[a].likedUsers, t) /\ ~Includes(users[t].likedUsers, a)
         /\ \A u \in Users : users[u].dislikedUsers = pre.users[u].dislikedUsers
         /\ \A u \in Users, v \in Ids :
              OtherEntry(u, v, a, t) =>
                /\ users[u].matches[v] = pre.users[u].matches[v]
                /\ users[u].likedUsers[v] = pre.users[u].likedUsers[v]

\* a, matched with b and with c and having disliked b, unmatches b: a and c
\* stay matched.
C11_Witness ==
  /\ reqs[1].pc = "done" /\ reqs[1].op = "unmatch" /\ reqs[1].status = 200
  /\ reqs[1].userId = "a" /\ reqs[1].target = "b"
  /\ MatchedPair(pre.users, "a", "b") /\ MatchedPair(pre.users, "a", "c")
  /\ Includes(pre.users["a"].dislikedUsers, "b")
  /\ MatchedPair(users, "a", "c")

\* Neither of x and y has the other in likedUsers or in matches.
Strangers(us, x, y) ==
  /\ ~Includes(us[x].matches, y) /\ ~Includes(us[y].matches, x)
  /\ ~Includes(us[x].likedUsers, y) /\ ~Includes(us[y].likedUsers, x)

\* C12: for a matched pair A,B, unmatch(A,B) then like(A,B) then like(B,A)
\* succeed one after the other, the second like reports isMatch = true and A
\* and B end in each other's matches.  Stated request by request: the unmatch
\* of a matched pair succeeds and leaves no like and no match between the two;
\* a like between two such users succeeds without a match and records the
\* like; the like back succeeds with isMatch and leaves the pair matched.
C12_RelikeAfterUnmatch ==
  \A s \in Slots :
    LET q == reqs[s]  a == reqs[s].userId  t == reqs[s].target IN
    (q.pc = "done" /\ a # t /\ t \in Users) =>
      /\ (q.op = "unmatch" /\ MatchedPair(pre.users, a, t))
           => q.status = 200 /\ Strangers(users, a, t)
      /\ (q.op = "like" /\ Strangers(pre.users, a, t))
           => /\ q.status = 200 /\ ~q.isMatch
              /\ Includes(users[a].likedUsers, t) /\ ~Includes(users[t].likedUsers, a)
              /\ ~Includes(users[a].matches, t) /\ ~Includes(users[t].matches, a)
      /\ (/\ q.op = "like"
          /\ Includes(pre.users[t].likedUsers, a) /\ ~Includes(pre.users[a].likedUsers, t)
          /\ ~Includes(pre.users[a].matches, t) /\ ~Includes(pre.users[t].matches, a))
           => q.status = 200 /\ q.isMatch /\ MatchedPair(users, a, t)

\* a has just unmatched b, with whom a was matched: no like, no match is left
\* between them.
C12_Witness ==
  /\ reqs[1].pc = "done" /\ reqs[1].op = "unmatch" /\ reqs[1].status = 200
  /\ reqs[1].userId = "a" /\ reqs[1].target = "b"
  /\ MatchedPair(pre.users, "a", "b")
  /\ Strangers(users, "a", "b")

\* C13: an unmatch of two different existing users who are not matched
\* succeeds and changes no likedUsers, dislikedUsers or matches of anybody.
C13_UnmatchNonMatchedNoOp ==
  \A s \in Slots :
    LET a == reqs[s].userId  t == reqs[s].target IN
    (/\ reqs[s].pc = "done" /\ reqs[s].op = "unmatch"
     /\ a # t /\ t \in Users /\ ~MatchedPair(pre.users, a, t))
      => reqs[s].status = 200 /\ users = pre.users

\* C14 as stated: a chat-with request for a userB who is not in the actor's
\* matches is refused as not matched (403), answers no chat and stores none.
C14_NotMatchedRefused ==
  \A s \in Slots :
    (/\ reqs[s].pc = "done" /\ reqs[s].op = "chatWith"
     /\ ~Includes(pre.users[reqs[s].userId].matches, reqs[s].target))
      => reqs[s].status = 403 /\ reqs[s].chatId = 0 /\ chats = pre.chats

\* C14: a chat-with request for a userB who is not in the actor's matches
\* fails, as not matched (403) when userB exists and as not found (404) when
\* not; it answers no chat and stores none.
C14_NotMatchedOrNotFound ==
  \A s \in Slots :
    (/\ reqs[s].pc = "done" /\ reqs[s].op = "chatWith"
     /\ ~Includes(pre.users[reqs[s].userId].matches, reqs[s].target))
      => /\ reqs[s].status = IF reqs[s].target \in Users THEN 403 ELSE 404
         /\ reqs[s].chatId = 0
         /\ chats = pre.chats

\* a, who liked b but is not matched with b, asks for the chat with b and is
\* refused.
C14_Witness ==
  /\ reqs[1].pc = "done" /\ reqs[1].op = "chatWith" /\ reqs[1].status = 403
  /\ reqs[1].userId = "a" /\ reqs[1].target = "b"
  /\ Includes(pre.users["a"].likedUsers, "b")
  /\ ~Includes(pre.users["a"].matches, "b")

\* C15: every stored chat has exactly two participants and they are two
\* different users, whatever likes and chat-with requests were made, those of
\* a user on their own id included.
C15_TwoDistinctParticipants ==
  \A i \in 1..Len(chats) :
    /\ Len(chats[i].participants) = 2
    /\ chats[i].participants[1] # chats[i].participants[2]

\* lastMessage has the content and the sender of the last message stored.
MirrorsTail(chat) ==
  /\ chat.lastMessage # <<>>
  /\ chat.lastMessage[1].content = chat.messages[Len(chat.messages)].content
  /\ chat.lastMessage[1].sender = chat.messages[Len(chat.messages)].sender

\* The successful sends on chat c that have been answered.
SendsDone(c) ==
  {s \in Slots : /\ reqs[s].pc = "done" /\ reqs[s].op = "send"
                 /\ reqs[s].status = 201 /\ reqs[s].chatId = c}

\* C16: sends running concurrently on one chat are all preserved: once they
\* have completed the chat holds the earlier messages followed by one message
\* per send, in the order of their appends (ids and createdAt ascending), and
\* lastMessage has the content and sender of the last of them.
C16_ConcurrentSendsPreserved ==
  Quiet =>
    \A c \in 1..Len(chats) :
      LET before == pre.chats[c].messages
          after == chats[c].messages IN
      /\ Len(after) = Len(before) + Cardinality(SendsDone(c))
      /\ SubSeq(after, 1, Len(before)) = before
      /\ \A s \in SendsDone(c) :
           \E i \in Len(before) + 1..Len(after) : after[i] = reqs[s].message[1]
      /\ \A i \in 1..Len(after), j \in 1..Len(after) :
           i < j => after[i].id < after[j].id /\ after[i].createdAt <= after[j].createdAt
      /\ SendsDone(c) # {} => MirrorsTail(chats[c])

\* Two sends of different users were in flight together; the one that arrived
\* second was appended first, both are stored.
C16_Witness ==
  /\ reqs[1].pc = "done" /\ reqs[1].op = "send" /\ reqs[1].status = 201
  /\ reqs[2].pc = "done" /\ reqs[2].op = "send" /\ reqs[2].status = 201
  /\ reqs[1].chatId = 1 /\ reqs[2].chatId = 1
  /\ reqs[1].userId # reqs[2].userId /\ reqs[1].content # reqs[2].content
  /\ Len(chats[1].messages) = 2
  /\ chats[1].messages[1] = reqs[2].message[1]
  /\ chats[1].messages[2] = reqs[1].message[1]
  /\ reqs[2].at > reqs[1].at

\* lastMessage names no message: it is null, or has neither content nor sender.
Absent(lastMessage) ==
  \/ lastMessage = <<>>
  \/ lastMessage[1].content = None /\ lastMessage[1].sender = None

C18_DeleteKeepsLastMessage ==
  \A s \in Slots :
    (reqs[s].pc = "done" /\ reqs[s].op = "delete" /\ reqs[s].status = 200)
      => LET c == reqs[s].chatId
             before == pre.chats[reqs[s].chatId].messages IN
         /\ Len(before) = 1 => Absent(chats[c].lastMessage)
         /\ before[Len(before)].id # reqs[s].messageId
              => chats[c].lastMessage = pre.chats[c].lastMessage

\* C19: a successful send appends exactly one message at the tail of the chat,
\* with the sender alone in readBy, leaves the earlier messages, the other
\* chats and the users unchanged, sets lastMessage to the content and sender of
\* that message, and answers the stored message.
C19_SendEffect ==
  \A s \in Slots :
    (reqs[s].pc = "done" /\ reqs[s].op = "send" /\ reqs[s].status = 201)
      => LET c == reqs[s].chatId
             message == reqs[s].message[1] IN
         /\ chats[c].messages = Append(pre.chats[c].messages, message)
         /\ message.sender = reqs[s].userId /\ message.content = reqs[s].content
         /\ message.readBy = <<reqs[s].userId>>
         /\ MirrorsTail(chats[c])
         /\ chats[c].participants = pre.chats[c].participants
         /\ Len(chats) = Len(pre.chats)
         /\ \A d \in 1..Len(chats) : d # c => chats[d] = pre.chats[d]
         /\ users = pre.users

\* b answers a's message: b's message is stored as sent, trimmed, after a's.
C19_Witness ==
  /\ reqs[1].pc = "done" /\ reqs[1].op = "send" /\ reqs[1].status = 201
  /\ reqs[1].userId = "b" /\ reqs[1].content = "yo"
  /\ Len(chats[1].messages) = 2
  /\ chats[1].messages[1].sender = "a" /\ chats[1].messages[1].content = "hi"
  /\ chats[1].messages[2].readBy = <<"b">>

\* C20: every successful send has emitted a receive-message event carrying the
\* chat id and the stored message to the room of the chat.
C20_SendEmitsEvent ==
  \A s \in Slots :
    (reqs[s].pc = "done" /\ reqs[s].op = "send" /\ reqs[s].status = 201)
      => \E i \in 1..Len(events) :
           events[i] = ReceiveMessage(reqs[s].chatId, reqs[s].message[1])

\* C21: every like that forms a mutual match (isMatch = true) has emitted a
\* match-formed event naming both users.
C21_MatchEmitsEvent ==
  \A s \in Slots :
    (/\ reqs[s].pc = "done" /\ reqs[s].op = "like"
     /\ reqs[s].status = 200 /\ reqs[s].isMatch)
      => \E i \in 1..Len(events) :
           /\ events[i].event = "match-formed"
           /\ events[i].users = {reqs[s].userId, reqs[s].target}

\* C23: a delete requested by anyone but the author of the message (the other
\* participant or a non-participant) is answered 403 and leaves the chats, their
\* messages and lastMessage as they were; a delete that removes a message was
\* requested by its sender.
C23_OnlySenderDeletes ==
  \A s \in Slots :
    (reqs[s].pc = "done" /\ reqs[s].op = "delete" /\ reqs[s].chatId # 0) =>
      LET before == pre.chats[reqs[s].chatId].messages
          m == reqs[s].messageId
          a == reqs[s].userId IN
      /\ (MessageById(before, m) # {} /\ \A i \in MessageById(before, m) : before[i].sender # a)
           => reqs[s].status = 403 /\ chats = pre.chats
      /\ chats # pre.chats
           => /\ reqs[s].status = 200
              /\ \E i \in MessageById(before, m) : before[i].sender = a

\* b, a participant, asked to delete a message that a sent, and was refused.
C23_Witness ==
  /\ reqs[1].pc = "done" /\ reqs[1].op = "delete" /\ reqs[1].status = 403
  /\ reqs[1].userId = "b" /\ reqs[1].chatId = 1
  /\ \E i \in MessageById(chats[1].messages, reqs[1].messageId) :
       chats[1].messages[i].sender = "a"

\* C26: a send whose content, once trimmed, has a length outside 1..1000 (empty
\* and blank content included) is answered 400 (validation error) and leaves
\* the chats unchanged; every stored message has a content of length 1 to 1000.
C26_ContentLengthValidated ==
  /\ \A s \in Slots :
       (/\ reqs[s].pc = "done" /\ reqs[s].op = "send"
        /\ (Length(reqs[s].content) < 1 \/ Length(reqs[s].content) > MaxContent))
         => reqs[s].status = 400 /\ chats = pre.chats
  /\ \A c \in 1..Len(chats) : \A i \in 1..Len(chats[c].messages) :
       /\ Length(chats[c].messages[i].content) >= 1
       /\ Length(chats[c].messages[i].content) <= MaxContent
       /\ Units(chats[c].messages[i].content) <= MaxLength

\* a, a participant of a chat that holds a message, sent a text of 1001
\* letters and was refused.
C26_Witness ==
  /\ reqs[1].pc = "done" /\ reqs[1].op = "send" /\ reqs[1].status = 400
  /\ reqs[1].userId = "a" /\ reqs[1].chatId = 1 /\ reqs[1].content = "long"
  /\ Len(chats[1].messages) = 1

\* The number of readBy entries of message for user u.
ReadCount(message, u) ==
  Cardinality({j \in 1..Len(message.readBy) : message.readBy[j] = u})

\* The users with an entry in the message's readBy.
Readers(message) == {message.readBy[j] : j \in 1..Len(message.readBy)}

\* C22: whatever sends and markReads were served one after another, no message
\* has two readBy entries for the same user; when markRead of chat C by its
\* participant U is answered 200, every message of C has exactly one entry
\* for U, the messages are those found with U added to the readers of each
\* and nothing else changed, and if U was already a reader of every message
\* (as after a markRead just before) the chats are exactly as found.
C22_MarkReadOnce ==
  /\ \A c \in 1..Len(chats) : \A i \in 1..Len(chats[c].messages) : \A u \in Users :
       ReadCount(chats[c].messages[i], u) <= 1
  /\ \A r \in Slots :
       LET q == reqs[r] IN
       (q.op = "markRead" /\ q.pc = "done" /\ q.status = 200) =>
         LET found == pre.chats[q.chatId].messages
             left == chats[q.chatId].messages
         IN
         /\ Len(left) = Len(found)
         /\ \A i \in 1..Len(left) :
              /\ ReadCount(left[i], q.userId) = 1
              /\ Readers(left[i]) = Readers(found[i]) \cup {q.userId}
              /\ [left[i] EXCEPT !.readBy = <<>>] = [found[i] EXCEPT !.readBy = <<>>]
         /\ [chats[q.chatId] EXCEPT !.messages = <<>>]
              = [pre.chats[q.chatId] EXCEPT !.messages = <<>>]
         /\ (\A i \in 1..Len(found) : HasRead(found[i], q.userId)) => chats = pre.chats

\* b marks read a chat of two messages, one of them a's and unread by b, the
\* other b's own.
C22_Witness ==
  \E r \in Slots :
    LET q == reqs[r] IN
    /\ q.op = "markRead" /\ q.pc = "done" /\ q.status = 200 /\ q.userId = "b"
    /\ Len(chats[q.chatId].messages) = 2
    /\ \E i, j \in 1..2 :
         /\ pre.chats[q.chatId].messages[i].readBy = <<"a">>
         /\ chats[q.chatId].messages[i].readBy = <<"a", "b">>
         /\ pre.chats[q.chatId].messages[j].readBy = <<"b">>
         /\ chats[q.chatId].messages[j].readBy = <<"b">>

\* The request q, served alone, was made on a stored chat by a user who is
\* neither of its two participants.
ByOutsider(q) ==
  /\ q.pc = "done" /\ q.op \in {"list", "send", "markRead"}
  /\ q.chatId \in 1..Len(pre.chats)
  /\ \A i \in 1..Len(pre.chats[q.chatId].participants) :
       pre.chats[q.chatId].participants[i] # q.userId

Min(x, y) == IF x <= y THEN x ELSE y

MessageIdsOf(messages) == {messages[i].id : i \in 1..Len(messages)}

\* No two of the messages were saved at the same time.
DistinctTimes(messages) ==
  \A i, j \in 1..Len(messages) : i < j => messages[i].createdAt < messages[j].createdAt

\* C25: a list of page p >= 1 with page size s of a chat of N messages,
\* answered 200, returns min(p*s, N) - (p-1)*s messages (none when that is
\* negative), oldest first by createdAt, with hasMore true exactly when
\* N > (p-1)*s + s.  When no two messages were saved at the same time these
\* are exactly the messages ranked (p-1)*s+1 .. min(p*s, N) from the newest,
\* in stored order.  In every case a later page holds no message of this
\* page and none newer than a message of this page, and the pages
\* 1 .. N+1 together hold every message of the chat.
C25_Pagination ==
  \A r \in Slots :
    LET q == reqs[r] IN
    (q.op = "list" /\ q.pc = "done" /\ q.status = 200) =>
      LET all == chats[q.chatId].messages
          N == Len(all)
          p == q.page
          s == q.limit
          top == Min(p * s, N)
          got == q.messages
      IN
      /\ Len(got) = IF top >= (p - 1) * s THEN top - (p - 1) * s ELSE 0
      /\ \A i, j \in 1..Len(got) : i < j => got[i].createdAt <= got[j].createdAt
      /\ q.hasMore <=> (N > (p - 1) * s + s)
      /\ DistinctTimes(all) => got = SubSeq(all, N - top + 1, N - (p - 1) * s)
      /\ MessageIdsOf(got) \subseteq MessageIdsOf(all)
      /\ Cardinality(MessageIdsOf(got)) = Len(got)
      /\ \A p2 \in 1..(N + 1) :
           p2 > p =>
             LET later == PageOf(all, p2, s) IN
             /\ MessageIdsOf(later) \cap MessageIdsOf(got) = {}
             /\ \A i \in 1..Len(later), j \in 1..Len(got) :
                  later[i].createdAt <= got[j].createdAt
      /\ UNION {MessageIdsOf(PageOf(all, p2, s)) : p2 \in 1..(N + 1)} = MessageIdsOf(all)

\* Page 2 of size 2 of a chat of three messages saved at three times: the
\* oldest message alone, and nothing more.
C25_Witness ==
  \E r \in Slots :
    LET q == reqs[r] IN
    /\ q.op = "list" /\ q.pc = "done" /\ q.status = 200
    /\ q.page = 2 /\ q.limit = 2
    /\ Len(chats[q.chatId].messages) = 3
    /\ DistinctTimes(chats[q.chatId].messages)
    /\ q.messages = <<chats[q.chatId].messages[1]>>
    /\ ~q.hasMore

\* C27: any two users who are in each other's matches are of the same
\* university.
C27_MatchesSameUniversity ==
  \A u, v \in Users :
    (Includes(users[u].matches, v) /\ Includes(users[v].matches, u)) =>
      users[u].university = users[v].university

\* The ids of the users a candidates request returned.
Offered(q) == {q.matches[i].id : i \in 1..Len(q.matches)}

\* C28: the candidates returned to a user never hold that user, nor a user
\* who is then in the user's likedUsers or dislikedUsers: after a like or a
\* dislike of T, T is not offered again for as long as T stays in one of
\* the two arrays.
C28_SeenNotOffered ==
  \A r \in Slots :
    LET q == reqs[r] IN
    (q.op = "potential" /\ q.pc = "done" /\ q.status = 200) =>
      \A t \in Offered(q) :
        /\ t # q.userId
        /\ ~Includes(users[q.userId].likedUsers, t)
        /\ ~Includes(users[q.userId].dislikedUsers, t)

\* a, who has liked b and disliked nobody, is offered c alone, though b is
\* of a's university like c.
C28_Witness ==
  \E r \in Slots :
    LET q == reqs[r] IN
    /\ q.op = "potential" /\ q.pc = "done" /\ q.status = 200 /\ q.userId = "a"
    /\ Includes(users["a"].likedUsers, "b")
    /\ users["b"].university = users["a"].university
    /\ Offered(q) = {"c"}

\* C29: every user returned to a candidates request is of the caller's
\* university, has a verified email, has profileCompleted true, and is of an
\* age from the caller's ageRange.min to ageRange.max, both included; so a
\* user of another university is not returned, wherever located.
C29_CandidatesEligible ==
  \A r \in Slots :
    LET q == reqs[r] IN
    (q.op = "potential" /\ q.pc = "done" /\ q.status = 200) =>
      \A t \in Offered(q) :
        /\ users[t].university = users[q.userId].university
        /\ users[t].isEmailVerified
        /\ users[t].profileCompleted
        /\ users[t].age >= users[q.userId].preferences.ageRange.min
        /\ users[t].age <= users[q.userId].preferences.ageRange.max

\* a, who prefers the ages 20 to 25, is offered b, aged 25, and c, aged 20.
C29_Witness ==
  \E r \in Slots :
    LET q == reqs[r] IN
    /\ q.op = "potential" /\ q.pc = "done" /\ q.status = 200 /\ q.userId = "a"
    /\ users["a"].preferences.ageRange = [min |-> 20, max |-> 25]
    /\ users["b"].age = 25 /\ users["c"].age = 20
    /\ Offered(q) = {"b", "c"}

\* The gate of interests as C30 words it, of a target T for an actor.
Gate(actor, T) ==
  /\ actor.interestedIn = "both" \/ T.gender = actor.interestedIn
  /\ T.interestedIn = actor.gender \/ T.interestedIn = "both"

\* C30: for every gender and interestedIn of the caller and of a candidate,
\* every candidate returned passes the gate (the caller is interested in
\* both or in the candidate's gender, and the candidate is interested in the
\* caller's gender or in both); a user who meets the other criteria is
\* returned exactly when passing the gate; and any user passes the gate for
\* another exactly when the other passes it for the user.
C30_MutualInterestGate ==
  /\ \A u, v \in Users : Gate(users[u], users[v]) <=> Gate(users[v], users[u])
  /\ \A r \in Slots :
       LET q == reqs[r] IN
       (q.op = "potential" /\ q.pc = "done" /\ q.status = 200) =>
         /\ \A t \in Offered(q) : Gate(users[q.userId], users[t])
         /\ \A t \in Users :
              (/\ NotSeen(users[q.userId], q.userId, t)
               /\ Eligible(users[q.userId], users[t])
               /\ WithinReach(users[q.userId], users[t]))
                => (t \in Offered(q) <=> Gate(users[q.userId], users[t]))

\* a, a man interested in women, is offered b, a woman interested in men.
C30_Witness ==
  \E r \in Slots :
    LET q == reqs[r] IN
    /\ q.op = "potential" /\ q.pc = "done" /\ q.status = 200 /\ q.userId = "a"
    /\ users["a"].gender = "male" /\ users["a"].interestedIn = "female"
    /\ users["b"].gender = "female" /\ users["b"].interestedIn = "male"
    /\ "b" \in Offered(q)

\* calculateDistance between the stored coordinates of two users, in metres.
Apart(user, other) ==
  calculateDistance(user.location.coordinates[2], user.location.coordinates[1],
                    other.location.coordinates[2], other.location.coordinates[1])

\* C31: whenever the caller's stored coordinates are not (0, 0), one of them
\* being 0 included, every user returned has coordinates other than (0, 0)
\* and is within the caller's maxDistance kilometres.
C31_DistanceRestricted ==
  \A r \in Slots :
    LET q == reqs[r] IN
    (q.op = "potential" /\ q.pc = "done" /\ q.status = 200
       /\ users[q.userId].location.coordinates # Origin) =>
      \A t \in Offered(q) :
        /\ users[t].location.coordinates # Origin
        /\ Apart(users[q.userId], users[t]) <= users[q.userId].preferences.maxDistance * 1000

\* C32: every user returned carries a distance, the whole number of
\* kilometres nearest to the great-circle distance (0 for users at the same
\* coordinates or less than half a kilometre apart), exactly when the
\* caller's and the user's coordinates are both other than (0, 0); otherwise
\* the distance is null.
C32_DistanceWhenBothLocated ==
  \A r \in Slots :
    LET q == reqs[r] IN
    (q.op = "potential" /\ q.pc = "done" /\ q.status = 200) =>
      \A i \in 1..Len(q.matches) :
        LET caller == users[q.userId]
            match == users[q.matches[i].id]
        IN
        IF caller.location.coordinates # Origin /\ match.location.coordinates # Origin
        THEN q.matches[i].distance = <<(Apart(caller, match) + 500) \div 1000>>
        ELSE q.matches[i].distance = <<>>

\* C33: a candidates answer holds at most 10 users, none twice, each
\* passing the filters, most recently active first; of the set E of the
\* stored users passing the filters it holds min(10, |E|), and no user of E
\* left out was active more recently than a user returned.
C33_TenMostRecent ==
  \A r \in Slots :
    LET q == reqs[r] IN
    (q.op = "potential" /\ q.pc = "done" /\ q.status = 200) =>
      LET E == {t \in DOMAIN users : MatchCriteria(users[q.userId], q.userId, t, users[t])}
          n == Len(q.matches)
      IN
      /\ n <= 10
      /\ n = IF Cardinality(E) < 10 THEN Cardinality(E) ELSE 10
      /\ Offered(q) \subseteq E
      /\ Cardinality(Offered(q)) = n
      /\ \A i, j \in 1..n : i < j =>
           users[q.matches[i].id].lastActive >= users[q.matches[j].id].lastActive
      /\ \A t \in E \ Offered(q) : \A i \in 1..n :
           users[t].lastActive <= users[q.matches[i].id].lastActive

\* Eleven users pass the filters, two of them last active at the earliest
\* time, and ten are returned.
C33_Witness ==
  \E r \in Slots :
    LET q == reqs[r] IN
    /\ q.op = "potential" /\ q.pc = "done" /\ q.status = 200
    /\ Cardinality({t \in DOMAIN users :
                      MatchCriteria(users[q.userId], q.userId, t, users[t])}) = 11
    /\ Len(q.matches) = 10
    /\ \E t \in DOMAIN users \ Offered(q) :
         t # q.userId /\ users[t].lastActive = users[q.matches[10].id].lastActive

\* C34: whatever updates of the profile, uploads, choices of the main photo
\* and removals of photos were served one after another, the stored
\* profileCompleted of every user is true exactly when the user has a bio
\* and at least one photo (the other fields of the derivation are required
\* of every stored user): it is false again once the last photo is deleted
\* or the bio cleared.
C34_CompletedIsDerived ==
  \A u \in DOMAIN users :
    users[u].profileCompleted <=> (users[u].bio # "" /\ Len(users[u].photos) >= 1)

\* The removal of a's only photo has made a's completed profile incomplete.
C34_Witness ==
  \E r \in Slots :
    LET q == reqs[r] IN
    /\ q.op = "deletePhoto" /\ q.pc = "done" /\ q.status = 200
    /\ pre.users[q.userId].profileCompleted
    /\ users[q.userId].photos = <<>>
    /\ users[q.userId].bio # ""
    /\ ~users[q.userId].profileCompleted

\* The photos of the list that are marked main.
Mains(photos) == {i \in 1..Len(photos) : photos[i].isMain}

\* C35: whatever uploads, choices of the main photo and removals of photos
\* were served one after another, every user has at most 6 photos and, if
\* any, exactly one of them marked main.
C35_OneMainPhoto ==
  \A u \in DOMAIN users :
    /\ Len(users[u].photos) <= 6
    /\ users[u].photos # <<>> => Cardinality(Mains(users[u].photos)) = 1

----------------------------------------------------------------------------
(* Preferences *)

\* C36: after any sequence of update-preferences requests, requests with
\* only ageRange.min or only ageRange.max among them, the preferences of
\* every user satisfy 18 <= ageRange.min <= ageRange.max <= 30 and
\* 1 <= maxDistance <= 100.
C36_PreferencesInRange ==
  \A u \in DOMAIN users :
    /\ MinAge <= users[u].preferences.ageRange.min
    /\ users[u].preferences.ageRange.min <= users[u].preferences.ageRange.max
    /\ users[u].preferences.ageRange.max <= MaxAge
    /\ MinDistance <= users[u].preferences.maxDistance
    /\ users[u].preferences.maxDistance <= MaxDistance

----------------------------------------------------------------------------
(* calculateDistance *)

Calculated(r) == reqs[r].op = "distance" /\ reqs[r].pc = "done"
FirstPoint(r) == users[reqs[r].userId].location.coordinates
SecondPoint(r) == users[reqs[r].target].location.coordinates

----------------------------------------------------------------------------
(* Mutual likes in flight together *)

\* C38: when like(A, B) and like(B, A) have both completed with success, one
\* after the other or interleaved at their reads and saves, and no unmatch
\* ran, B is in A.matches and A is in B.matches.
C38_MutualLikeMatched ==
  \A s \in Slots, t \in Slots :
    ( /\ reqs[s].pc = "done" /\ reqs[s].op = "like" /\ reqs[s].status = 200
      /\ reqs[t].pc = "done" /\ reqs[t].op = "like" /\ reqs[t].status = 200
      /\ reqs[s].userId # reqs[s].target
      /\ reqs[t].userId = reqs[s].target /\ reqs[t].target = reqs[s].userId )
    => MatchedPair(users, reqs[s].userId, reqs[s].target)

----------------------------------------------------------------------------
(* A send and a delete in flight together *)

\* C39: when a send and a delete of an earlier message have run concurrently
\* on one chat and both have completed with success, the chat keeps the
\* message sent and lastMessage has the content and sender of the most recent
\* message left.
C39_DeleteKeepsNewerLastMessage ==
  \A s \in Slots, d \in Slots :
    ( /\ reqs[s].pc = "done" /\ reqs[s].op = "send" /\ reqs[s].status = 201
      /\ reqs[d].pc = "done" /\ reqs[d].op = "delete" /\ reqs[d].status = 200
      /\ reqs[s].chatId = reqs[d].chatId
      /\ reqs[d].messageId # reqs[s].message[1].id )
    => LET chat == chats[reqs[s].chatId] IN
       /\ \E i \in 1..Len(chat.messages) : chat.messages[i] = reqs[s].message[1]
       /\ MirrorsTail(chat)

====
